---- MODULE Spec2Model ----
(***************************************************************************)
(* Model of the Blanco Unit BLE client                                     *)
(* (custom_components/blanco_unit/client.py), its coordinator and the      *)
(* setup of its config entries.                                            *)
(*                                                                         *)
(* Specification Spec: the session/connection state machine of             *)
(* BlancoUnitBluetoothClient driven by several asyncio tasks.  A task      *)
(* runs atomically from one await that suspends to the next one, as on an  *)
(* asyncio event loop; the transport (bleak) and the device are the        *)
(* environment.                                                            *)
(*                                                                         *)
(* Specification SpecErr: the error correlation of _execute_transaction    *)
(* applied to every response shape of a bounded set.                       *)
(*                                                                         *)
(* Specification SpecRead: the poll loop of read_response_chunks against   *)
(* every sequence of reads over a bounded set of values.                   *)
(*                                                                         *)
(* Specification SpecCodec: create_packets followed by parse_response on   *)
(* a bounded set of documents, MTUs and message ids.                       *)
(*                                                                         *)
(* Specification SpecProto: the client used by one caller, with the data   *)
(* of the protocol: PIN, session id, message id and envelopes.             *)
(*                                                                         *)
(* Specification SpecMsgId: one protocol object writing envelope after     *)
(* envelope, through more than one cycle of message ids.                   *)
(*                                                                         *)
(* Specification SpecParse: parse_response on every short stream of a      *)
(* bounded set of chunks, well formed or not.                              *)
(*                                                                         *)
(* Specification SpecDispense: dispense_water on a grid of amounts and     *)
(* intensities.                                                            *)
(*                                                                         *)
(* Specification SpecValidate: validate_pin on a bounded set of PINs and   *)
(* pairing responses.                                                      *)
(*                                                                         *)
(* Specification SpecCoord: the methods of BlancoUnitCoordinator over the  *)
(* results and exceptions of the client.                                   *)
(*                                                                         *)
(* Specification SpecScan: _find_device_by_scanning over the devices a scan*)
(* discovers.                                                              *)
(*                                                                         *)
(* Specification SpecSetup: async_setup_entry and async_unload_entry of    *)
(* several config entries, with the retry callback.                        *)
(*                                                                         *)
(* Specification SpecService: the change_pin service, from the call to the *)
(* update of the config entry.                                             *)
(***************************************************************************)
EXTENDS Integers, Sequences, FiniteSets, TLC

\* ------------------------------------------------------------------ bounds

\* Number of asyncio tasks that call into one client instance.
NumTasks == 2
\* Number of transports establish_connection may open during one run.
MaxTransports == 2

Tasks == 1..NumTasks
Transports == 1..MaxTransports

\* ------------------------------------------------------- program constants

MTU_SIZE == 200
\* The err_code that means "wrong PIN".
AUTH_ERR_CODE == 4
\* The envelope type that means "acknowledged".
ACK_TYPE == 2

\* ---------------------------------------------------------------- values

NoDev == "None"
DevIds == {"devA"}
\* _session_data is None
NoSession == [client |-> 0, dev_id |-> NoDev]

\* err_code values a device may put in an error entry (4 and another one).
ErrCodes == {AUTH_ERR_CODE, 5}
ErrLists == {<<>>} \cup {<<c>> : c \in ErrCodes}
               \cup {<<c, d>> : c \in ErrCodes, d \in ErrCodes}

\* A decoded response document, reduced to the fields the client looks at:
\*   type              the envelope's "type"
\*   pars              body.pars: present (key in body) and its errs list
\*   results           body.results: present (non-empty list) and
\*                     results[0].pars.errs
\*   dev_id            body.meta.dev_id, NoDev when the key is absent
AbsentPars == [present |-> FALSE, errs |-> <<>>]
ParsVals == {AbsentPars} \cup {[present |-> TRUE, errs |-> e] : e \in ErrLists}
Responses == [type : {1, ACK_TYPE}, pars : ParsVals, results : ParsVals,
              dev_id : DevIds \cup {NoDev}]
NoResp == [type |-> 0, pars |-> AbsentPars, results |-> AbsentPars,
           dev_id |-> NoDev]

\* The responses the device sends in Spec: one of each kind the connection
\* state machine distinguishes.
WireResponses ==
  { [type |-> ACK_TYPE, pars |-> AbsentPars,
     results |-> [present |-> TRUE, errs |-> <<>>], dev_id |-> "devA"],
    [type |-> 1, pars |-> [present |-> TRUE, errs |-> <<5>>],
     results |-> AbsentPars, dev_id |-> "devA"],
    [type |-> 1, pars |-> AbsentPars,
     results |-> [present |-> TRUE, errs |-> <<4>>], dev_id |-> NoDev],
    [type |-> 1, pars |-> [present |-> TRUE, errs |-> <<5, 4>>],
     results |-> AbsentPars, dev_id |-> "devA"],
    [type |-> ACK_TYPE, pars |-> AbsentPars, results |-> AbsentPars,
     dev_id |-> NoDev] }

\* Lengths of the serialized request documents handed to create_packets:
\* the pairing envelope and a set_temperature envelope with a 36-character
\* device id.
PayloadLens == {219, 356}

\* Results of a call, as seen by the caller.
Ok == "ok"
AuthError == "BlancoUnitAuthenticationError"
ConnError == "BlancoUnitConnectionError"
TimeoutErr == "TimeoutError"
ValueErr == "ValueError"
BleakErr == "BleakError"

\* ---------------------------------------------------------- pure helpers

CeilDiv(a, b) == (a + b - 1) \div b

\* len(create_packets(json_data, msg_id)) for a document of n bytes: the
\* header packet, then one packet per next_cap bytes left after first_cap.
NumPackets(n) ==
  LET payload_len == n + 2
      first_cap == MTU_SIZE - 5
      next_cap == MTU_SIZE - 2
  IN  IF payload_len <= first_cap THEN 1
      ELSE 1 + CeilDiv(payload_len - first_cap, next_cap)

\* Mutant: the response is read as soon as the header packet is written.
AfterWrite_ReadAfterHeader(w, n, write, read) == read

\* for packet in packets: await write_gatt_char(...), then
\* read_response_chunks: with w of n packets written the next await is the
\* write of packet w, and the first read once all n are written.
AfterWrite(w, n, write, read) == IF w = n THEN read ELSE write

\* Mutant: the results shape is preferred over body.pars.
extract_pars_ResultsFirst(response) ==
  IF response.results.present THEN response.results
  ELSE IF response.pars.present THEN response.pars
  ELSE AbsentPars

extract_pars(response) ==
  IF response.pars.present THEN response.pars
  ELSE IF response.results.present THEN response.results
  ELSE AbsentPars

extract_errors(response) == extract_pars(response).errs

\* for error in errors: if error.get("err_code") == 4
HasAuthErrorEntry(errors) ==
  \E i \in 1..Len(errors) : errors[i] = AUTH_ERR_CODE

_extract_device_id(response) == response.dev_id

\* Mutant: the error entries are not looked at.
validate_pin_DevIdOnly(response) == _extract_device_id(response) # NoDev

\* is_valid of validate_pin's result for a pairing response.
validate_pin(response) ==
  IF HasAuthErrorEntry(extract_errors(response)) THEN FALSE
  ELSE IF _extract_device_id(response) # NoDev THEN TRUE
  ELSE FALSE

\* Mutant: is_valid is ignored, only the device id is looked at.
_perform_pairing_NoAuthCheck(response) ==
  IF _extract_device_id(response) = NoDev
    THEN [raised |-> ConnError, dev_id |-> NoDev]
  ELSE [raised |-> Ok, dev_id |-> _extract_device_id(response)]

\* _perform_pairing after validate_pin returned: the exception raised
\* (Ok when none) and the device id returned.
_perform_pairing(response) ==
  IF ~validate_pin(response)
    THEN [raised |-> AuthError, dev_id |-> NoDev]
  ELSE IF _extract_device_id(response) = NoDev
    THEN [raised |-> ConnError, dev_id |-> NoDev]
  ELSE [raised |-> Ok, dev_id |-> _extract_device_id(response)]

\* Mutant: only the first error entry is checked.
CheckResponse_FirstOnly(response, s) ==
  IF /\ extract_errors(response) # <<>>
     /\ extract_errors(response)[1] = AUTH_ERR_CODE
    THEN [raised |-> AuthError, value |-> NoResp, session |-> s]
    ELSE [raised |-> Ok, value |-> response, session |-> s]

\* _execute_transaction after send_request returned `response`, with
\* _session_data = s: the exception raised (Ok when none), the value
\* returned and the _session_data it leaves.
CheckResponse(response, s) ==
  IF HasAuthErrorEntry(extract_errors(response))
    THEN [raised |-> AuthError, value |-> NoResp, session |-> s]
    ELSE [raised |-> Ok, value |-> response, session |-> s]

\* Mutant: no mutual exclusion.
CanAcquire_NoLock(h, w) == TRUE

\* asyncio.Lock.acquire returns without suspending: the lock is not held
\* (holder h = 0) and nobody waits for it (queue w).
CanAcquire(h, w) == h = 0 /\ w = <<>>

\* Mutant: the early return of _connect is missing.
AlreadyConnected_Never(s) == FALSE

\* _connect: "if self._session_data: return self._session_data"
AlreadyConnected(s) == s # NoSession

\* Mutant: disconnect() does not look at _session_data.
HasSession_Always(s) == TRUE

\* disconnect: "if self._session_data:"
HasSession(s) == s # NoSession

\* Mutant: the callback runs before _session_data is cleared.
_handle_disconnect_NotifyFirst(s) ==
  [session |-> NoSession, arg |-> FALSE, seen |-> s]

\* _handle_disconnect with _session_data = s: the new _session_data, the
\* argument of the connection callback and the _session_data the callback
\* finds when it runs.
_handle_disconnect(s) ==
  [session |-> NoSession, arg |-> FALSE, seen |-> NoSession]

\* ------------------------------------------------------------------ state

VARIABLES
  pc,         \* per task: the await it is suspended in ("idle": not running)
  ret,        \* per task: which _connect call it is in ("op": the one of
              \*   get_status..get_wifi_info, "txn": _execute_transaction's)
  loc,        \* per task: local client / session_data
  wr,         \* per task: packets of the current request written so far
  total,      \* per task: len(packets) of the current request
  holder,     \* _connect_lock: the task holding it, 0 when free
  waiters,    \* _connect_lock: the tasks queued in acquire()
  transport,  \* per BleakClient returned by establish_connection
  session,    \* BlancoUnitBluetoothClient._session_data
  cb,         \* last call of _connection_callback
  last,       \* how the last call (or pairing) ended: where, with which
              \*   result, having parsed which response
  response,   \* SpecErr: the response under test
  outcome,    \* SpecErr: what _execute_transaction made of it
  chunks,     \* SpecRead: read_response_chunks' list of chunks
  expected,   \* SpecRead: read_response_chunks' expected
  last_data,  \* SpecRead: read_response_chunks' last_data
  attempts,   \* SpecRead: read_response_chunks' attempts
  read,       \* SpecRead: the calls of read_gatt_char: how many, and what
              \*   the last one returned or that it raised
  rd,         \* SpecRead: where read_response_chunks is: polling, returned
              \*   or raised TimeoutError
  json_data,  \* SpecCodec: the document handed to create_packets
  msg_id,     \* SpecCodec: the msg_id handed to create_packets
  mtu,        \* SpecCodec: _BlancoUnitProtocol.mtu
  packets,    \* SpecCodec: what create_packets returned or raised
  parsed,     \* SpecCodec: what parse_response made of these packets
  pin,        \* SpecProto: BlancoUnitBluetoothClient._pin
  protocol,   \* SpecProto: the _BlancoUnitProtocol object created last
  sent,       \* SpecProto: the envelope written last, its msg_id and the
              \*   client it was written to
  written,    \* SpecProto: envelopes written with the protocol object
  call,       \* SpecProto: the typed operation running or run last
  coordinator_data,  \* SpecCoord: BlancoUnitCoordinator.data
  coord,      \* SpecCoord: the coordinator method running or run last
  scan,       \* SpecScan: the locals of _find_device_by_scanning
  entry       \* SpecSetup: per config entry, whether its MAC is random,
              \*   its state, whether hass.data[DOMAIN][entry_id] holds
              \*   BLE_CALLBACK, and the retry callbacks registered with
              \*   the bluetooth manager and not unregistered;
              \*   SpecService: its data[CONF_PIN]

taskVars == <<pc, ret, loc, wr, total>>
lockVars == <<holder, waiters>>
clientVars == <<taskVars, lockVars, transport, session, cb, last>>
errVars == <<response, outcome>>
readVars == <<chunks, expected, last_data, attempts, read, rd>>
codecVars == <<json_data, msg_id, mtu, packets, parsed>>
protoVars == <<pin, protocol, sent, written, call>>
haVars == <<coordinator_data, coord, scan, entry>>
\* What the client state machine of Spec leaves alone.
otherVars == <<errVars, readVars, codecVars, protoVars, haVars>>
vars == <<pc, ret, loc, wr, total, holder, waiters, transport, session, cb,
          last, response, outcome, chunks, expected, last_data, attempts,
          read, rd, json_data, msg_id, mtu, packets, parsed, pin, protocol,
          sent, written, call, coordinator_data, coord, scan, entry>>

NoCb == [arg |-> "none", seen |-> NoSession]
NoCall == [at |-> "none", res |-> "none", rx |-> NoResp]
Pending == [raised |-> "pending", value |-> NoResp, session |-> NoSession]
NoRead == [calls |-> 0, raised |-> FALSE, data |-> <<>>]
NoPackets == [raised |-> "pending", packets |-> <<>>]
NoDoc == [raised |-> "pending", doc |-> <<>>]

\* A client that has just been constructed, nothing running.
ClientIdle ==
  /\ pc = [t \in Tasks |-> "idle"]
  /\ ret = [t \in Tasks |-> "txn"]
  /\ loc = [t \in Tasks |-> NoSession]
  /\ wr = [t \in Tasks |-> 0]
  /\ total = [t \in Tasks |-> 0]
  /\ holder = 0
  /\ waiters = <<>>
  /\ transport = [c \in Transports |-> "unopened"]
  /\ session = NoSession
  /\ cb = NoCb
  /\ last = NoCall

\* No response under test.
ErrIdle ==
  /\ response = NoResp
  /\ outcome = Pending

\* No read_response_chunks running.
ReadIdle ==
  /\ chunks = <<>>
  /\ expected = 1
  /\ last_data = <<>>
  /\ attempts = 0
  /\ read = NoRead
  /\ rd = "idle"

\* No codec call under test.
CodecIdle ==
  /\ json_data = <<>>
  /\ msg_id = 1
  /\ mtu = MTU_SIZE
  /\ packets = NoPackets
  /\ parsed = NoDoc

\* BlancoUnitSettings, reduced to the two settings that are written.
NoSettings == [set_point_cooling |-> 0, wtr_hardness |-> 0]
\* coordinator.data is None
NoData ==
  [present |-> FALSE, connected |-> FALSE, available |-> FALSE,
   settings |-> NoSettings]
NoCoordCall ==
  [at |-> "idle", op |-> "none", arg |-> 0, res |-> "none", key |-> "none",
   rediscover |-> 0, settings |-> NoSettings, raised |-> "none"]
\* No _find_device_by_scanning running, nothing discovered.
NoScan ==
  [at |-> "idle", discovered |-> <<>>, candidates |-> <<>>, i |-> 0,
   had_auth_failure |-> FALSE, tried |-> <<>>, res |-> "none", device |-> 0]
\* Config entries of the integration.
MaxEntries == 2
Entries == 1..MaxEntries
\* No config entry is set up; hass.data[DOMAIN] holds no callback.
NoEntry ==
  [e \in Entries |->
     [random_mac |-> FALSE, state |-> "not_loaded", callback |-> FALSE,
      active |-> 0, pin |-> 0]]

\* A coordinator that has just been constructed; no scan, nothing
\* registered for the config entry.
HaIdle ==
  /\ coordinator_data = NoData
  /\ coord = NoCoordCall
  /\ scan = NoScan
  /\ entry = NoEntry

\* "12345", the PIN the client is constructed with, as character codes.
InitialPin == <<49, 50, 51, 52, 53>>
NoProtocol == [session_id |-> 0, msg_id_counter |-> 0]
NoEnvelope ==
  [session |-> 0, id |-> 0, token |-> [sha256 |-> <<>>], salt |-> <<>>,
   meta |-> [evt_type |-> 0], ctrl |-> 0]
NoSent == [env |-> NoEnvelope, msg_id |-> 0, client |-> 0]
NoOp ==
  [at |-> "idle", op |-> "none", arg |-> <<>>, res |-> "none",
   value |-> "None"]

\* A client constructed with InitialPin that has sent nothing.
ProtoIdle ==
  /\ pin = InitialPin
  /\ protocol = NoProtocol
  /\ sent = NoSent
  /\ written = 0
  /\ call = NoOp

Init ==
  /\ HaIdle
  /\ ClientIdle
  /\ ErrIdle
  /\ ReadIdle
  /\ CodecIdle
  /\ ProtoIdle

\* device_id property
device_id == IF session # NoSession THEN session.dev_id ELSE NoDev

\* Task t is suspended at p, inside the _connect call r, with locals l, w, n.
Suspend(t, p, r, l, w, n) ==
  /\ pc' = [pc EXCEPT ![t] = p]
  /\ ret' = [ret EXCEPT ![t] = r]
  /\ loc' = [loc EXCEPT ![t] = l]
  /\ wr' = [wr EXCEPT ![t] = w]
  /\ total' = [total EXCEPT ![t] = n]

\* The call of task t ends at `at`: it returns or raises r, having parsed x.
Finish(t, at, r, x) ==
  /\ Suspend(t, "idle", "txn", NoSession, 0, 0)
  /\ last' = [at |-> at, res |-> r, rx |-> x]

\* send_request up to its first await: the packets are created and the
\* first write_gatt_char is awaited.
StartSend(t, s) ==
  \E n \in PayloadLens : Suspend(t, "send_write", "txn", s, 0, NumPackets(n))

\* _connect returned session s to task t; the lock is free again and w is
\* its queue.  A get operation now calls _execute_transaction, whose own
\* _connect finds the same session unless it has to queue for the lock.
ConnectReturns(t, r, s, w) ==
  /\ holder' = 0
  /\ IF r = "op" /\ ~CanAcquire(0, w)
       THEN /\ Suspend(t, "lockwait", "txn", NoSession, 0, 0)
            /\ waiters' = Append(w, t)
       ELSE /\ StartSend(t, s)
            /\ waiters' = w

\* Mutant: _connect opens a connection whatever _session_data is.
WithLock_AlwaysEstablish(t, r, w) ==
  /\ holder' = t
  /\ waiters' = w
  /\ Suspend(t, "establish", r, NoSession, 0, 0)

\* Task t holds _connect_lock (its queue is w) and runs _connect's body up
\* to the first await.
WithLock(t, r, w) ==
  IF AlreadyConnected(session)
    THEN ConnectReturns(t, r, session, w)
    ELSE /\ holder' = t
         /\ waiters' = w
         /\ Suspend(t, "establish", r, NoSession, 0, 0)

\* await self._connect() up to the first await that suspends.
EnterConnect(t, r) ==
  IF CanAcquire(holder, waiters)
    THEN WithLock(t, r, waiters)
    ELSE /\ Suspend(t, "lockwait", r, NoSession, 0, 0)
         /\ waiters' = Append(waiters, t)
         /\ holder' = holder

\* The disconnected_callback of transport c runs: _handle_disconnect.
Disconnected(c) ==
  LET h == _handle_disconnect(session)
  IN  /\ transport' = [transport EXCEPT ![c] = "disconnected"]
      /\ session' = h.session
      /\ cb' = [arg |-> IF h.arg THEN "True" ELSE "False", seen |-> h.seen]

\* An exception leaves _connect: "async with" releases the lock.
ConnectRaises(t, at, e, x) ==
  /\ holder' = 0
  /\ waiters' = waiters
  /\ Finish(t, at, e, x)

\* ---------------------------------------------------------------- actions

\* A task calls get_system_info / get_settings / get_status /
\* get_device_identity / get_wifi_info: _connect, then _execute_transaction.
CallGet(t) ==
  /\ pc[t] = "idle"
  /\ EnterConnect(t, "op")
  /\ UNCHANGED <<transport, session, cb, last, otherVars>>

\* A task calls set_temperature / set_water_hardness / dispense_water /
\* set_calibration_*: _execute_transaction only.
CallSet(t) ==
  /\ pc[t] = "idle"
  /\ EnterConnect(t, "txn")
  /\ UNCHANGED <<transport, session, cb, last, otherVars>>

\* The first waiter of a released lock wakes up and takes it.
LockResume(t) ==
  /\ pc[t] = "lockwait"
  /\ holder = 0
  /\ waiters # <<>>
  /\ Head(waiters) = t
  /\ WithLock(t, ret[t], Tail(waiters))
  /\ UNCHANGED <<transport, session, cb, last, otherVars>>

\* establish_connection returns a new BleakClient; the protocol object is
\* created and the pairing request's first packet is written.
EstablishOk(t) ==
  /\ pc[t] = "establish"
  /\ \E c \in Transports :
       /\ transport[c] = "unopened"
       /\ \A d \in Transports : d < c => transport[d] # "unopened"
       /\ transport' = [transport EXCEPT ![c] = "connected"]
       /\ \E n \in PayloadLens :
            Suspend(t, "pair_write", ret[t],
                    [client |-> c, dev_id |-> NoDev], 0, NumPackets(n))
  /\ UNCHANGED <<lockVars, session, cb, last, otherVars>>

\* establish_connection raises.
EstablishFail(t) ==
  /\ pc[t] = "establish"
  /\ ConnectRaises(t, "establish", BleakErr, NoResp)
  /\ UNCHANGED <<transport, session, cb, otherVars>>

\* One write_gatt_char of send_pairing_request completes or raises.
PairWrite(t) ==
  /\ pc[t] = "pair_write"
  /\ IF transport[loc[t].client] = "connected"
       THEN /\ Suspend(t, AfterWrite(wr[t] + 1, total[t], "pair_write",
                                      "pair_read"),
                       ret[t], loc[t], wr[t] + 1, total[t])
            /\ UNCHANGED <<last, lockVars>>
       ELSE ConnectRaises(t, "pair", BleakErr, NoResp)
  /\ UNCHANGED <<transport, session, cb, otherVars>>

\* The reads of read_response_chunks have collected the whole response.
PairArrives(t) ==
  /\ pc[t] = "pair_read"
  /\ transport[loc[t].client] = "connected"
  /\ Suspend(t, "pair_ready", ret[t], loc[t], wr[t], total[t])
  /\ UNCHANGED <<lockVars, transport, session, cb, last, otherVars>>

\* read_response_chunks raises TimeoutError during pairing.
PairTimeout(t) ==
  /\ pc[t] = "pair_read"
  /\ ConnectRaises(t, "pair", TimeoutErr, NoResp)
  /\ UNCHANGED <<transport, session, cb, otherVars>>

\* parse_response raises ValueError during pairing.
PairBadChunks(t) ==
  /\ pc[t] = "pair_ready"
  /\ ConnectRaises(t, "pair", ValueErr, NoResp)
  /\ UNCHANGED <<transport, session, cb, otherVars>>

\* The pairing response is parsed: validate_pin, _perform_pairing and the
\* rest of _connect.
PairDone(t) ==
  /\ pc[t] = "pair_ready"
  /\ \E r \in WireResponses :
       LET p == _perform_pairing(r)
           c == loc[t].client
           s == [client |-> c, dev_id |-> p.dev_id]
       IN  IF p.raised # Ok
             THEN /\ ConnectRaises(t, "pair", p.raised, r)
                  /\ UNCHANGED <<session, cb>>
             ELSE /\ session' = s
                  /\ cb' = [arg |-> IF transport[c] = "connected" THEN "True"
                                    ELSE "False",
                            seen |-> s]
                  /\ last' = [at |-> "pair", res |-> Ok, rx |-> r]
                  /\ ConnectReturns(t, ret[t], s, waiters)
  /\ UNCHANGED <<transport, otherVars>>

\* One write_gatt_char of send_request completes or raises.
SendWrite(t) ==
  /\ pc[t] = "send_write"
  /\ IF transport[loc[t].client] = "connected"
       THEN /\ Suspend(t, AfterWrite(wr[t] + 1, total[t], "send_write",
                                      "send_read"),
                       ret[t], loc[t], wr[t] + 1, total[t])
            /\ UNCHANGED last
       ELSE Finish(t, "send", BleakErr, NoResp)
  /\ UNCHANGED <<lockVars, transport, session, cb, otherVars>>

\* The reads of read_response_chunks have collected the whole response.
SendArrives(t) ==
  /\ pc[t] = "send_read"
  /\ transport[loc[t].client] = "connected"
  /\ Suspend(t, "send_ready", ret[t], loc[t], wr[t], total[t])
  /\ UNCHANGED <<lockVars, transport, session, cb, last, otherVars>>

\* read_response_chunks raises TimeoutError.
SendTimeout(t) ==
  /\ pc[t] = "send_read"
  /\ Finish(t, "send", TimeoutErr, NoResp)
  /\ UNCHANGED <<lockVars, transport, session, cb, otherVars>>

\* parse_response raises ValueError.
SendBadChunks(t) ==
  /\ pc[t] = "send_ready"
  /\ Finish(t, "send", ValueErr, NoResp)
  /\ UNCHANGED <<lockVars, transport, session, cb, otherVars>>

\* The response is parsed and _execute_transaction checks it for errors.
SendDone(t) ==
  /\ pc[t] = "send_ready"
  /\ \E r \in WireResponses :
       LET k == CheckResponse(r, session)
       IN  /\ session' = k.session
           /\ Finish(t, "send", k.raised, r)
  /\ UNCHANGED <<lockVars, transport, cb, otherVars>>

\* A task calls disconnect().
CallDisconnect(t) ==
  /\ pc[t] = "idle"
  /\ IF HasSession(session)
       THEN /\ Suspend(t, "disc_wait", "txn", session, 0, 0)
            /\ UNCHANGED last
       ELSE Finish(t, "disconnect", Ok, NoResp)
  /\ UNCHANGED <<lockVars, transport, session, cb, otherVars>>

\* BleakClient.disconnect() completes: a connected transport goes down,
\* which runs the disconnected callback, and disconnect() returns.
DisconnectDone(t) ==
  /\ pc[t] = "disc_wait"
  /\ IF transport[loc[t].client] = "connected"
       THEN Disconnected(loc[t].client)
       ELSE UNCHANGED <<transport, session, cb>>
  /\ Finish(t, "disconnect", Ok, NoResp)
  /\ UNCHANGED <<lockVars, otherVars>>

\* The transport reports that the link to the device is lost.
TransportLost(c) ==
  /\ transport[c] = "connected"
  /\ Disconnected(c)
  /\ UNCHANGED <<taskVars, lockVars, last, otherVars>>

Next ==
  \/ \E t \in Tasks : CallGet(t)
  \/ \E t \in Tasks : CallSet(t)
  \/ \E t \in Tasks : LockResume(t)
  \/ \E t \in Tasks : EstablishOk(t)
  \/ \E t \in Tasks : EstablishFail(t)
  \/ \E t \in Tasks : PairWrite(t)
  \/ \E t \in Tasks : PairArrives(t)
  \/ \E t \in Tasks : PairTimeout(t)
  \/ \E t \in Tasks : PairBadChunks(t)
  \/ \E t \in Tasks : PairDone(t)
  \/ \E t \in Tasks : SendWrite(t)
  \/ \E t \in Tasks : SendArrives(t)
  \/ \E t \in Tasks : SendTimeout(t)
  \/ \E t \in Tasks : SendBadChunks(t)
  \/ \E t \in Tasks : SendDone(t)
  \/ \E t \in Tasks : CallDisconnect(t)
  \/ \E t \in Tasks : DisconnectDone(t)
  \/ \E c \in Transports : TransportLost(c)

Spec == Init /\ [][Next]_vars

\* --------------------------------------------------------------- SpecErr
\* _execute_transaction's error correlation on every response shape: a
\* task of a paired client has read a response and checks it.

ReadySession == [client |-> 1, dev_id |-> "devA"]

InitErr ==
  /\ HaIdle
  /\ pc = [t \in Tasks |-> IF t = 1 THEN "send_ready" ELSE "idle"]
  /\ ret = [t \in Tasks |-> "txn"]
  /\ loc = [t \in Tasks |-> IF t = 1 THEN ReadySession ELSE NoSession]
  /\ wr = [t \in Tasks |-> IF t = 1 THEN 2 ELSE 0]
  /\ total = [t \in Tasks |-> IF t = 1 THEN 2 ELSE 0]
  /\ holder = 0
  /\ waiters = <<>>
  /\ transport = [c \in Transports |-> IF c = 1 THEN "connected"
                                       ELSE "unopened"]
  /\ session = ReadySession
  /\ cb = [arg |-> "True", seen |-> ReadySession]
  /\ last = NoCall
  /\ response \in Responses
  /\ outcome = Pending
  /\ ReadIdle
  /\ CodecIdle
  /\ ProtoIdle

ExecuteCheck ==
  /\ pc[1] = "send_ready"
  /\ outcome = Pending
  /\ LET k == CheckResponse(response, session)
     IN  /\ outcome' = k
         /\ session' = k.session
         /\ Finish(1, "send", k.raised, response)
  /\ UNCHANGED <<lockVars, transport, cb, response, readVars, codecVars,
                 protoVars, haVars>>

NextErr == ExecuteCheck

SpecErr == InitErr /\ [][NextErr]_vars

\* -------------------------------------------------------------- SpecRead
\* _BlancoUnitProtocol.read_response_chunks polling a characteristic whose
\* reads return any value of ReadValues, or raise, in any order.

max_attempts == 40

\* Byte strings read_gatt_char returns: a header declaring one chunk, a
\* header declaring two, a continuation chunk, a chunk that is no header
\* in the stream but begins with 0xFF and has 3 as its third byte, and the
\* empty value.
ReadValues ==
  { <<255, 0, 1, 10, 0, 123>>,
    <<255, 0, 2, 10, 0, 123>>,
    <<10, 1, 125>>,
    <<255, 1, 3>>,
    <<>> }

\* The locals of read_response_chunks; broke: the loop was left by "break".
Locals ==
  [chunks |-> chunks, expected |-> expected, last_data |-> last_data,
   attempts |-> attempts, broke |-> FALSE]

\* Mutant: the loop has no attempt budget.
LoopCondition_NoBudget(st) == Len(st.chunks) < st.expected

\* while len(chunks) < expected and attempts < max_attempts
LoopCondition(st) ==
  Len(st.chunks) < st.expected /\ st.attempts < max_attempts

\* Mutant: every value read is appended, changed or not.
AfterRead_AlwaysAppend(st, data) ==
  [st EXCEPT !.last_data = data, !.chunks = Append(@, data),
             !.attempts = @ + 1]

\* The try block after read_gatt_char returned data.  data[0] and data[2]
\* raise IndexError on a value that is too short, which the except clause
\* catches like a read error, after the value was appended.
AfterRead(st, data) ==
  IF data = st.last_data
    THEN [st EXCEPT !.attempts = @ + 1]
  ELSE LET appended == [st EXCEPT !.last_data = data,
                                  !.chunks = Append(@, data)]
       IN  IF Len(data) < 1
             THEN [appended EXCEPT !.broke = TRUE]
           ELSE IF data[1] # 255
             THEN [appended EXCEPT !.attempts = @ + 1]
           ELSE IF Len(data) < 3
             THEN [appended EXCEPT !.broke = TRUE]
           ELSE [appended EXCEPT !.expected = data[3], !.attempts = @ + 1]

\* Mutant: a read error is counted as an attempt and the loop goes on.
AfterReadError_Counted(st) == [st EXCEPT !.attempts = @ + 1]

\* read_gatt_char raised: "except Exception: ... break".
AfterReadError(st) == [st EXCEPT !.broke = TRUE]

\* The code after the loop: raise TimeoutError or return chunks.
AfterLoop(st) ==
  IF Len(st.chunks) # st.expected THEN TimeoutErr ELSE "returned"

\* The locals become st; the function reads again or ends.
Continue(st) ==
  /\ chunks' = st.chunks
  /\ expected' = st.expected
  /\ last_data' = st.last_data
  /\ attempts' = st.attempts
  /\ rd' = IF ~st.broke /\ LoopCondition(st) THEN "polling"
           ELSE AfterLoop(st)

InitRead ==
  /\ HaIdle
  /\ ClientIdle
  /\ ErrIdle
  /\ chunks = <<>>
  /\ expected = 1
  /\ last_data = <<>>
  /\ attempts = 0
  /\ read = NoRead
  /\ rd = "polling"
  /\ CodecIdle
  /\ ProtoIdle

\* read_gatt_char returns data.
ReadReturns(data) ==
  /\ rd = "polling"
  /\ read' = [calls |-> read.calls + 1, raised |-> FALSE, data |-> data]
  /\ Continue(AfterRead(Locals, data))
  /\ UNCHANGED <<clientVars, errVars, codecVars, protoVars, haVars>>

\* read_gatt_char raises.
ReadRaises ==
  /\ rd = "polling"
  /\ read' = [calls |-> read.calls + 1, raised |-> TRUE, data |-> <<>>]
  /\ Continue(AfterReadError(Locals))
  /\ UNCHANGED <<clientVars, errVars, codecVars, protoVars, haVars>>

NextRead ==
  \/ \E data \in ReadValues : ReadReturns(data)
  \/ ReadRaises

SpecRead == InitRead /\ [][NextRead]_vars

\* ------------------------------------------------------------- SpecCodec
\* create_packets and parse_response applied to documents {"k": "<text>"},
\* byte for byte.

\* Longest text of the short documents.
MaxText == 5
\* The characters of a text: "a" and "b".
TextChars == {97, 98}
\* The smallest MTU of the round trip.
MinMtu == 10
\* The longest text whose document fits in 255 packets at MinMtu: the
\* capacity of 255 packets less the 8 bytes of JSON around the text and
\* the 2 bytes of the sentinel.
FullText == (MinMtu - 5) + 254 * (MinMtu - 2) - 8 - 2

Stripes(n) == [i \in 1..n |-> IF i % 2 = 1 THEN 97 ELSE 98]

\* json_data: the text of the document.
Documents ==
  UNION {[1..n -> TextChars] : n \in 0..MaxText}
    \cup {Stripes(FullText), Stripes(FullText + 1)}
Mtus == {1, 2, 3, 4, 5, MinMtu, 16, MTU_SIZE}
MsgIds == {1, 10, 254}

ZeroDivErr == "ZeroDivisionError"
IndexErr == "IndexError"

\* json.dumps(json_data, separators=(",", ":")).encode("utf-8")
json_dumps(doc) == <<123, 34, 107, 34, 58, 34>> \o doc \o <<34, 125>>

\* json.loads(clean.decode("utf-8")): the document, or the error of a text
\* that is not the serialization of a document.
json_loads(b) ==
  LET n == Len(b)
  IN  IF /\ n >= 8
         /\ SubSeq(b, 1, 6) = <<123, 34, 107, 34, 58, 34>>
         /\ SubSeq(b, n - 1, n) = <<34, 125>>
         /\ \A i \in 7..(n - 2) : b[i] \in TextChars
        THEN [raised |-> Ok, doc |-> SubSeq(b, 7, n - 2)]
        ELSE [raised |-> ValueErr, doc |-> <<>>]

\* A Python slice bound i on a sequence of n items, as an offset in 0..n.
SliceBound(i, n) ==
  IF i < 0 THEN (IF n + i < 0 THEN 0 ELSE n + i)
  ELSE IF i > n THEN n ELSE i

\* b[lo:hi]
Slice(b, lo, hi) ==
  SubSeq(b, SliceBound(lo, Len(b)) + 1, SliceBound(hi, Len(b)))

\* Mutant: the quotient is rounded down.
math_ceil_Floor(a, b) == a \div b

\* math.ceil(a / b) for a >= 0 and b # 0.
math_ceil(a, b) ==
  IF b > 0 THEN (a + b - 1) \div b ELSE 0 - (a \div (0 - b))

\* Mutant: the continuation packets are indexed from 0.
Continuations_IndexFromZero(payload_bytes, id, first_cap, next_cap) ==
  LET n == Len(payload_bytes)
      offsets == {j \in 0..(n + 5) : first_cap + j * next_cap < n}
  IN  [idx \in 1..Cardinality(offsets) |->
         <<id, idx - 1>> \o Slice(payload_bytes,
                                  first_cap + (idx - 1) * next_cap,
                                  first_cap + idx * next_cap)]

\* The while loop of create_packets: one continuation packet for every
\* offset first_cap, first_cap + next_cap, ... below len(payload_bytes),
\* with idx counting from 1 (next_cap > 0).
Continuations(payload_bytes, id, first_cap, next_cap) ==
  LET n == Len(payload_bytes)
      offsets == {j \in 0..(n + 5) : first_cap + j * next_cap < n}
  IN  [idx \in 1..Cardinality(offsets) |->
         <<id, idx>> \o Slice(payload_bytes,
                              first_cap + (idx - 1) * next_cap,
                              first_cap + idx * next_cap)]

\* create_packets of a protocol object with mtu m.  bytes([...]) raises
\* ValueError for an item outside 0..255, the division ZeroDivisionError.
create_packets(doc, id, m) ==
  LET payload_bytes == json_dumps(doc) \o <<0, 255>>
      first_cap == m - 5
      next_cap == m - 2
      n == Len(payload_bytes)
  IN  IF n > first_cap /\ next_cap = 0
        THEN [raised |-> ZeroDivErr, packets |-> <<>>]
      ELSE
        LET count == IF n <= first_cap THEN 1
                     ELSE 1 + math_ceil(n - first_cap, next_cap)
        IN  IF count \notin 0..255 \/ id \notin 0..255
              THEN [raised |-> ValueErr, packets |-> <<>>]
              ELSE [raised |-> Ok,
                    packets |->
                      <<(<<255, 0, count, id, 0>>
                           \o Slice(payload_bytes, 0, first_cap))>>
                        \o Continuations(payload_bytes, id, first_cap,
                                         next_cap)]

\* The concatenation of the byte strings parts[lo..hi].
RECURSIVE Concat(_, _, _)
Concat(parts, lo, hi) ==
  IF lo > hi THEN <<>>
  ELSE IF lo = hi THEN parts[lo]
  ELSE Concat(parts, lo, (lo + hi) \div 2)
         \o Concat(parts, (lo + hi) \div 2 + 1, hi)

\* The for loop of parse_response over rest = raw_chunks[1:]: the payload
\* extended by c[2:] of every chunk, or the error the first chunk raises
\* that is empty (c[0]) or does not begin with the message id.
Extend(payload, id, rest) ==
  LET bad == {i \in 1..Len(rest) : Len(rest[i]) < 1 \/ rest[i][1] # id}
      first == CHOOSE i \in bad : \A j \in bad : i <= j
  IN  IF bad = {}
        THEN [raised |-> Ok,
              payload |-> payload
                \o Concat([i \in 1..Len(rest) |->
                             Slice(rest[i], 2, Len(rest[i]))],
                          1, Len(rest))]
      ELSE IF Len(rest[first]) < 1
        THEN [raised |-> IndexErr, payload |-> <<>>]
      ELSE [raised |-> ValueErr, payload |-> <<>>]

\* payload.split(b"\x00")[0]
BeforeNul(payload) ==
  LET z == {i \in 1..Len(payload) : payload[i] = 0}
  IN  IF z = {} THEN payload
      ELSE SubSeq(payload, 1, (CHOOSE i \in z : \A j \in z : i <= j) - 1)

\* Mutant: the sentinel is not stripped.
parse_response_KeepSentinel(raw_chunks) ==
  IF raw_chunks = <<>> THEN [raised |-> ValueErr, doc |-> <<>>]
  ELSE LET e == Extend(Slice(raw_chunks[1], 5, Len(raw_chunks[1])),
                       raw_chunks[1][4], Tail(raw_chunks))
       IN  json_loads(e.payload)

parse_response(raw_chunks) ==
  IF raw_chunks = <<>> THEN [raised |-> ValueErr, doc |-> <<>>]
  ELSE IF Len(raw_chunks[1]) < 1 THEN [raised |-> IndexErr, doc |-> <<>>]
  ELSE IF raw_chunks[1][1] # 255 THEN [raised |-> ValueErr, doc |-> <<>>]
  ELSE IF Len(raw_chunks[1]) < 4 THEN [raised |-> IndexErr, doc |-> <<>>]
  ELSE LET e == Extend(Slice(raw_chunks[1], 5, Len(raw_chunks[1])),
                       raw_chunks[1][4], Tail(raw_chunks))
       IN  IF e.raised # Ok THEN [raised |-> e.raised, doc |-> <<>>]
           ELSE json_loads(BeforeNul(e.payload))

InitCodec ==
  /\ HaIdle
  /\ ClientIdle
  /\ ErrIdle
  /\ ReadIdle
  /\ json_data \in Documents
  /\ msg_id \in MsgIds
  /\ mtu \in Mtus
  /\ packets = NoPackets
  /\ parsed = NoDoc
  /\ ProtoIdle

\* packets = protocol.create_packets(json_data, msg_id)
Fragment ==
  /\ packets = NoPackets
  /\ packets' = create_packets(json_data, msg_id, mtu)
  /\ UNCHANGED <<clientVars, errVars, readVars, protoVars, json_data,
                 msg_id, mtu, parsed, haVars>>

\* protocol.parse_response(packets)
Reassemble ==
  /\ packets.raised = Ok
  /\ parsed = NoDoc
  /\ parsed' = parse_response(packets.packets)
  /\ UNCHANGED <<clientVars, errVars, readVars, protoVars, json_data,
                 msg_id, mtu, packets, haVars>>

NextCodec ==
  \/ Fragment
  \/ Reassemble

SpecCodec == InitCodec /\ [][NextCodec]_vars

\* ------------------------------------------------------------- SpecParse
\* parse_response applied to chunk streams that no create_packets built.

\* Longest chunk stream.
MaxChunks == 3

\* The chunks of a stream: the header of message 10 carrying {"k":", the
\* continuation a"} of message 10 with the sentinel, the same continuation
\* of message 11, a header cut after its third byte, and an empty chunk.
RawChunks ==
  {<<255, 0, 2, 10, 0, 123, 34, 107, 34, 58, 34>>,
   <<10, 1, 97, 34, 125, 0, 255>>,
   <<11, 1, 97, 34, 125, 0, 255>>,
   <<255, 0, 1>>,
   <<>>}

\* raw_chunks
ChunkStreams == UNION {[1..n -> RawChunks] : n \in 0..MaxChunks}

InitParse ==
  /\ HaIdle
  /\ ClientIdle
  /\ ErrIdle
  /\ ReadIdle
  /\ json_data = <<>>
  /\ msg_id = 1
  /\ mtu = MTU_SIZE
  /\ packets \in {[raised |-> Ok, packets |-> s] : s \in ChunkStreams}
  /\ parsed = NoDoc
  /\ ProtoIdle

SpecParse == InitParse /\ [][Reassemble]_vars

\* ------------------------------------------------------------- SpecProto
\* One caller uses the client: typed operations, disconnect() and link
\* losses one after the other, with the data of the protocol (PIN, session
\* id, message id, envelopes).  A call takes two steps: up to the return of
\* _connect, and send_request with what follows it.

\* Envelopes one protocol object writes before the caller stops calling.
MaxEnvelopes == 3

\* Values of random.randint(1000000, 9999999).
SessionIds == {1000000, 9999999}
ReqIds == {1000000, 7654321}

\* Pairing responses and responses to requests: acknowledged, from device
\* devA; not acknowledged, from device devB; wrong PIN; acknowledged
\* without device id.
DeviceResponses ==
  { [type |-> ACK_TYPE, pars |-> AbsentPars,
     results |-> [present |-> TRUE, errs |-> <<>>], dev_id |-> "devA"],
    [type |-> 1, pars |-> AbsentPars,
     results |-> [present |-> TRUE, errs |-> <<>>], dev_id |-> "devB"],
    [type |-> 1, pars |-> AbsentPars,
     results |-> [present |-> TRUE, errs |-> <<4>>], dev_id |-> NoDev],
    [type |-> ACK_TYPE, pars |-> AbsentPars, results |-> AbsentPars,
     dev_id |-> NoDev] }

\* The typed operations and their arguments: cooling_celsius; level;
\* amount_ml and co2_intensity; new_pin as character codes.
OpArgs ==
  [set_temperature |-> {<<3>>, <<4>>, <<11>>},
   set_water_hardness |-> {<<0>>, <<9>>, <<10>>},
   dispense_water |-> {<<100, 1>>, <<150, 1>>, <<1600, 1>>, <<100, 4>>},
   change_pin |-> {<<53, 52, 51, 50, 49>>, <<49, 50, 51, 52>>,
                   <<49, 50, 97, 52, 53>>},
   get_status |-> {<<>>}]
Ops == DOMAIN OpArgs

\* The ctrl option each operation passes to _execute_transaction.
Ctrl ==
  [set_temperature |-> 5, set_water_hardness |-> 5, dispense_water |-> 1000,
   change_pin |-> 13, get_status |-> 3]

\* str.isdigit() of one ASCII character.
IsDigit(c) == c \in 48..57

\* Mutant: no operation checks its arguments.
Validates_AcceptAll(op, arg) == TRUE

\* Mutant: dispense_water does not check that the amount is a multiple of
\* 100.
Validates_AnyAmountInRange(op, arg) ==
  CASE op = "set_temperature" -> 4 <= arg[1] /\ arg[1] <= 10
    [] op = "set_water_hardness" -> 1 <= arg[1] /\ arg[1] <= 9
    [] op = "dispense_water" ->
         /\ 100 <= arg[1] /\ arg[1] <= 1500
         /\ arg[2] \in {1, 2, 3}
    [] op = "change_pin" ->
         Len(arg) = 5 /\ \A i \in 1..Len(arg) : IsDigit(arg[i])
    [] OTHER -> TRUE

\* The argument checks made before _execute_transaction is called.
Validates(op, arg) ==
  CASE op = "set_temperature" -> 4 <= arg[1] /\ arg[1] <= 10
    [] op = "set_water_hardness" -> 1 <= arg[1] /\ arg[1] <= 9
    [] op = "dispense_water" ->
         /\ 100 <= arg[1] /\ arg[1] <= 1500
         /\ arg[1] % 100 = 0
         /\ arg[2] \in {1, 2, 3}
    [] op = "change_pin" ->
         Len(arg) = 5 /\ \A i \in 1..Len(arg) : IsDigit(arg[i])
    [] OTHER -> TRUE

\* str(n): the decimal digits of n.
RECURSIVE Str(_)
Str(n) == IF n < 10 THEN <<n>> ELSE Str(n \div 10) \o <<n % 10>>

\* hashlib.sha256(x).hexdigest(): a digest that determines x.
sha256(x) == [sha256 |-> x]

\* pin_hash + salt is a pair: the digest has a fixed length.
calculate_token(p, salt) == sha256(<<sha256(p), salt>>)

\* Mutant: dev_id stays in the dictionary when it is None.
_RequestMeta_to_dict_KeepNone(evt_type, dev_id) ==
  [evt_type |-> evt_type, dev_id |-> dev_id]

\* _RequestMeta(evt_type, dev_id).to_dict()
_RequestMeta_to_dict(evt_type, dev_id) ==
  IF dev_id = NoDev THEN [evt_type |-> evt_type]
  ELSE [evt_type |-> evt_type, dev_id |-> dev_id]

\* Mutant: the counter runs through 1..255.
NextMsgId_Mod255(c) == (c % 255) + 1

\* self.msg_id_counter = (self.msg_id_counter % 254) + 1
NextMsgId(c) == (c % 254) + 1

\* The envelope send_pairing_request / send_request build on protocol
\* object prot, and the protocol object after its counter was advanced.
BuildRequest(prot, p, dev_id, evt_type, ctrl, req_id) ==
  LET salt == Str(prot.session_id) \o Str(req_id)
  IN  [protocol |-> [prot EXCEPT !.msg_id_counter = NextMsgId(@)],
       env |-> [session |-> prot.session_id, id |-> req_id,
                token |-> calculate_token(p, salt), salt |-> salt,
                meta |-> _RequestMeta_to_dict(evt_type, dev_id),
                ctrl |-> ctrl]]

send_pairing_request(prot, p, req_id) ==
  BuildRequest(prot, p, NoDev, 10, 0, req_id)

\* Mutant: every request draws a session id of its own.
send_request_NewSessionId(prot, p, dev_id, evt_type, ctrl, req_id) ==
  BuildRequest([prot EXCEPT !.session_id = IF @ = 1000000 THEN 9999999
                                           ELSE 1000000],
               p, dev_id, evt_type, ctrl, req_id)

\* Mutant: requests are signed with the PIN the client was built with.
send_request_InitialPin(prot, p, dev_id, evt_type, ctrl, req_id) ==
  BuildRequest(prot, InitialPin, dev_id, evt_type, ctrl, req_id)

send_request(prot, p, dev_id, evt_type, ctrl, req_id) ==
  BuildRequest(prot, p, dev_id, evt_type, ctrl, req_id)

\* Mutant: the new PIN is stored whatever the device answered.
change_pin_AlwaysStore(p, new_pin, resp) == new_pin

\* change_pin after _execute_transaction returned resp: the PIN stored.
change_pin(p, new_pin, resp) ==
  IF resp.type = ACK_TYPE THEN new_pin ELSE p

\* What op returns when _execute_transaction returned resp: the settings
\* operations return resp.get("type") == 2, get_status its data.
ReturnValue(op, resp) ==
  IF op = "get_status" THEN "data"
  ELSE IF resp.type = ACK_TYPE THEN "True" ELSE "False"

\* The call of op(arg) ends: it raises r, or returns v (r is Ok).
Ends(op, arg, r, v) ==
  call' = [at |-> "idle", op |-> op, arg |-> arg, res |-> r, value |-> v]

\* _connect returned a session to op(arg).
Proceeds(op, arg) ==
  call' = [at |-> "sending", op |-> op, arg |-> arg, res |-> "pending",
           value |-> "None"]

\* _connect on a client without session: establish_connection, a new
\* protocol object and the pairing transaction.
Connect(op, arg) ==
  \/ /\ Ends(op, arg, BleakErr, "None")
     /\ UNCHANGED <<transport, session, cb, last, pin, protocol, sent,
                    written>>
  \/ \E c \in Transports, sid \in SessionIds, rid \in ReqIds :
       LET q == send_pairing_request(
                  [session_id |-> sid, msg_id_counter |-> 1], pin, rid)
       IN  /\ transport[c] = "unopened"
           /\ \A d \in Transports : d < c => transport[d] # "unopened"
           /\ transport' = [transport EXCEPT ![c] = "connected"]
           /\ protocol' = q.protocol
           /\ sent' = [env |-> q.env, msg_id |-> q.protocol.msg_id_counter,
                       client |-> c]
           /\ written' = 1
           /\ pin' = pin
           /\ \/ /\ Ends(op, arg, TimeoutErr, "None")
                 /\ UNCHANGED <<session, cb, last>>
              \/ \E r \in DeviceResponses :
                   LET k == _perform_pairing(r)
                       sd == [client |-> c, dev_id |-> k.dev_id]
                   IN  /\ last' = [at |-> "pair", res |-> k.raised, rx |-> r]
                       /\ IF k.raised # Ok
                            THEN /\ Ends(op, arg, k.raised, "None")
                                 /\ UNCHANGED <<session, cb>>
                            ELSE /\ session' = sd
                                 /\ cb' = [arg |-> "True", seen |-> sd]
                                 /\ Proceeds(op, arg)

\* The caller invokes op(arg): the argument check, then _connect.
Invoke(op, arg) ==
  /\ call.at = "idle"
  /\ IF ~Validates(op, arg)
       THEN /\ Ends(op, arg, ValueErr, "None")
            /\ UNCHANGED <<transport, session, cb, last, pin, protocol,
                           sent, written>>
     ELSE IF AlreadyConnected(session)
       THEN /\ written < MaxEnvelopes
            /\ Proceeds(op, arg)
            /\ UNCHANGED <<transport, session, cb, last, pin, protocol,
                           sent, written>>
     ELSE Connect(op, arg)
  /\ response' = NoResp
  /\ UNCHANGED <<taskVars, lockVars, outcome, readVars, codecVars, haVars>>

\* _execute_transaction after _connect: send_request, the check of the
\* response, and what the operation does with it.  `response` is the resp
\* of the call, NoResp until send_request has returned.
Transact ==
  /\ call.at = "sending"
  /\ \E rid \in ReqIds :
       LET q == send_request(protocol, pin, session.dev_id, 7,
                             Ctrl[call.op], rid)
       IN  /\ protocol' = q.protocol
           /\ sent' = [env |-> q.env, msg_id |-> q.protocol.msg_id_counter,
                       client |-> session.client]
           /\ written' = written + 1
  /\ \/ /\ Ends(call.op, call.arg, TimeoutErr, "None")
        /\ response' = NoResp
        /\ UNCHANGED <<session, pin>>
     \/ \E r \in DeviceResponses :
          LET k == CheckResponse(r, session)
          IN  /\ Ends(call.op, call.arg, k.raised,
                       IF k.raised = Ok THEN ReturnValue(call.op, r)
                       ELSE "None")
              /\ response' = r
              /\ session' = k.session
              /\ pin' = IF k.raised = Ok /\ call.op = "change_pin"
                          THEN change_pin(pin, call.arg, r)
                          ELSE pin
  /\ UNCHANGED <<taskVars, lockVars, transport, cb, last, outcome, readVars,
                 codecVars, haVars>>

\* The caller invokes disconnect().
Hangup ==
  /\ call.at = "idle"
  /\ IF HasSession(session) /\ transport[session.client] = "connected"
       THEN Disconnected(session.client)
       ELSE UNCHANGED <<transport, session, cb>>
  /\ Ends("disconnect", <<>>, Ok, "None")
  /\ response' = NoResp
  /\ UNCHANGED <<taskVars, lockVars, last, outcome, readVars, codecVars,
                 pin, protocol, sent, written, haVars>>

\* The link of transport c is lost between two calls.
LinkLost(c) ==
  /\ call.at = "idle"
  /\ transport[c] = "connected"
  /\ Disconnected(c)
  /\ UNCHANGED <<taskVars, lockVars, last, errVars, readVars, codecVars,
                 protoVars, haVars>>

NextProto ==
  \/ \E op \in Ops : \E arg \in OpArgs[op] : Invoke(op, arg)
  \/ Transact
  \/ Hangup
  \/ \E c \in Transports : LinkLost(c)

SpecProto == Init /\ [][NextProto]_vars

\* ------------------------------------------------------------- SpecMsgId
\* One protocol object through a long session: the pairing request, then
\* one request after the other.

\* Envelopes the protocol object writes: more than one cycle of message
\* ids.
MaxSent == 256

InitMsgId ==
  /\ HaIdle
  /\ ClientIdle
  /\ ErrIdle
  /\ ReadIdle
  /\ CodecIdle
  /\ pin = InitialPin
  /\ \E sid \in SessionIds :
       protocol = [session_id |-> sid, msg_id_counter |-> 1]
  /\ sent = NoSent
  /\ written = 0
  /\ call = NoOp

\* protocol.send_pairing_request(client, pin) up to its first await.
PairingSend ==
  /\ written = 0
  /\ \E rid \in ReqIds :
       LET q == send_pairing_request(protocol, pin, rid)
       IN  /\ protocol' = q.protocol
           /\ sent' = [env |-> q.env, msg_id |-> q.protocol.msg_id_counter,
                       client |-> 1]
  /\ written' = 1
  /\ UNCHANGED <<clientVars, errVars, readVars, codecVars, pin, call, haVars>>

\* protocol.send_request(client, pin, dev_id, 7, ctrl) up to its first
\* await.
RequestSend ==
  /\ written > 0
  /\ written < MaxSent
  /\ \E rid \in ReqIds :
       LET q == send_request(protocol, pin, "devA", 7, Ctrl.get_status, rid)
       IN  /\ protocol' = q.protocol
           /\ sent' = [env |-> q.env, msg_id |-> q.protocol.msg_id_counter,
                       client |-> 1]
  /\ written' = written + 1
  /\ UNCHANGED <<clientVars, errVars, readVars, codecVars, pin, call, haVars>>

NextSend ==
  \/ PairingSend
  \/ RequestSend

SpecMsgId == InitMsgId /\ [][NextSend]_vars

\* ----------------------------------------------------------- SpecDispense
\* One caller calls dispense_water, again and again, with an amount and
\* an intensity of DispenseArgs.

\* amount_ml runs over the multiples of 50 up to 50 * MaxAmountStep.
MaxAmountStep == 40
\* co2_intensity runs over 0..MaxIntensity.
MaxIntensity == 5

DispenseArgs ==
  {<<50 * k, i>> : k \in 0..MaxAmountStep, i \in 0..MaxIntensity}

\* The caller is about to call dispense_water(*call.arg).
InitDispense ==
  /\ HaIdle
  /\ ClientIdle
  /\ ErrIdle
  /\ ReadIdle
  /\ CodecIdle
  /\ pin = InitialPin
  /\ protocol = NoProtocol
  /\ sent = NoSent
  /\ written = 0
  /\ call \in {[NoOp EXCEPT !.arg = a] : a \in DispenseArgs}

NextDispense ==
  \/ Invoke("dispense_water", call.arg)
  \/ Transact

SpecDispense == InitDispense /\ [][NextDispense]_vars

\* ----------------------------------------------------------- SpecValidate
\* The standalone validate_pin(client, pin) on an active BleakClient, as
\* the config flow and the scanner call it: any PIN of ValidatePins, any
\* response of Responses.

\* pin arguments: "12345", "1234", "123456", "12a45" and "".
ValidatePins ==
  {<<49, 50, 51, 52, 53>>, <<49, 50, 51, 52>>, <<49, 50, 51, 52, 53, 54>>,
   <<49, 50, 97, 52, 53>>, <<>>}

\* not (len(pin) != 5 or not pin.isdigit())
ValidPinFormat(p) == Len(p) = 5 /\ \A i \in 1..Len(p) : IsDigit(p[i])

InitValidate ==
  /\ HaIdle
  /\ pc = [t \in Tasks |-> "idle"]
  /\ ret = [t \in Tasks |-> "txn"]
  /\ loc = [t \in Tasks |-> NoSession]
  /\ wr = [t \in Tasks |-> 0]
  /\ total = [t \in Tasks |-> 0]
  /\ holder = 0
  /\ waiters = <<>>
  /\ transport = [c \in Transports |->
                    IF c = 1 THEN "connected" ELSE "unopened"]
  /\ session = NoSession
  /\ cb = NoCb
  /\ last = NoCall
  /\ ErrIdle
  /\ ReadIdle
  /\ CodecIdle
  /\ ProtoIdle

\* validate_pin(client, p) up to the first await of send_pairing_request:
\* the format check, a new protocol object, the pairing envelope.
ValidateCall(p) ==
  /\ call.at = "idle"
  /\ response' = NoResp
  /\ IF ~ValidPinFormat(p)
       THEN /\ Ends("validate_pin", p, ValueErr, "None")
            /\ UNCHANGED <<protocol, sent, written>>
       ELSE \E sid \in SessionIds, rid \in ReqIds :
              LET q == send_pairing_request(
                         [session_id |-> sid, msg_id_counter |-> 1], p, rid)
              IN  /\ protocol' = q.protocol
                  /\ sent' = [env |-> q.env,
                              msg_id |-> q.protocol.msg_id_counter,
                              client |-> 1]
                  /\ written' = 1
                  /\ Proceeds("validate_pin", p)
  /\ UNCHANGED <<clientVars, outcome, readVars, codecVars, pin, haVars>>

\* send_pairing_request returns r: validate_pin returns (is_valid, r).
ValidateReturns(r) ==
  /\ call.at = "sending"
  /\ response' = r
  /\ Ends(call.op, call.arg, Ok, IF validate_pin(r) THEN "True" ELSE "False")
  /\ UNCHANGED <<clientVars, outcome, readVars, codecVars, pin, protocol,
                 sent, written, haVars>>

\* send_pairing_request raises: read_response_chunks timed out.
ValidateRaises ==
  /\ call.at = "sending"
  /\ Ends(call.op, call.arg, TimeoutErr, "None")
  /\ UNCHANGED <<clientVars, errVars, readVars, codecVars, pin, protocol,
                 sent, written, haVars>>

NextValidate ==
  \/ \E p \in ValidatePins : ValidateCall(p)
  \/ \E r \in Responses : ValidateReturns(r)
  \/ ValidateRaises

SpecValidate == InitValidate /\ [][NextValidate]_vars

\* -------------------------------------------------------------- SpecCoord
\* BlancoUnitCoordinator (coordinator.py): the refresh of the data, the
\* methods set_temperature, set_water_hardness and disconnect with their
\* client calls made through _call, and the callbacks that change the data.
\* The client is the environment: each of its calls returns or raises.

BleakConnErr == "BleakConnectionError"
BleakNotFoundErr == "BleakNotFoundError"
AuthFailed == "ConfigEntryAuthFailed"
ServiceValidationErr == "ServiceValidationError"

\* Exceptions a client call raises.
ClientErrors ==
  {AuthError, ConnError, TimeoutErr, ValueErr, BleakConnErr,
   BleakNotFoundErr}

\* Settings get_settings reports.
SettingsValues == [set_point_cooling : {4, 7}, wtr_hardness : {3, 5}]

\* The coordinator methods called and their arguments.
CoordArgs ==
  [set_temperature |-> {4, 7}, set_water_hardness |-> {3, 5},
   disconnect |-> {0}]
CoordOps == DOMAIN CoordArgs

\* Mutant: the settings are compared with themselves.
Saved_NoCompare(op, arg, settings) == TRUE

\* The check after the read-back: the setting the method wrote has the
\* requested value.
Saved(op, arg, settings) ==
  IF op = "set_temperature" THEN settings.set_point_cooling = arg
  ELSE settings.wtr_hardness = arg

NotSavedKey(op) ==
  IF op = "set_temperature" THEN "not_saved_temperature"
  ELSE "not_saved_water_hardness"

\* BlancoUnitBaseEntity.available for the data d.
available(d) == d.present /\ d.available

\* DisconnectButton.available for the data d (the entity exists once the
\* coordinator has data).
DisconnectButton_available(d) == d.connected

\* _set_unavailable on the data d (async_rediscover_address is counted in
\* the action).
_set_unavailable(d) ==
  IF ~d.present THEN d ELSE [d EXCEPT !.available = FALSE]

\* Mutant: a BleakConnectionError is passed on like an unknown error
\* without touching the availability.
_call_KeepAvailable(e) ==
  IF e = AuthError
    THEN [res |-> AuthFailed, key |-> "none", unavailable |-> FALSE]
  ELSE IF e \in {BleakConnErr, BleakNotFoundErr}
    THEN [res |-> ServiceValidationErr, key |-> "error_device_not_found",
          unavailable |-> e = BleakNotFoundErr]
  ELSE [res |-> ServiceValidationErr, key |-> "error_unknown",
        unavailable |-> TRUE]

\* The except clauses of _call for the exception e of the client: what is
\* raised instead, and whether _set_unavailable is called first.
_call(e) ==
  IF e = AuthError
    THEN [res |-> AuthFailed, key |-> "none", unavailable |-> FALSE]
  ELSE IF e = BleakConnErr
    THEN [res |-> ServiceValidationErr, key |-> "error_device_not_found",
          unavailable |-> TRUE]
  ELSE IF e = BleakNotFoundErr
    THEN [res |-> ServiceValidationErr, key |-> "error_device_not_found",
          unavailable |-> TRUE]
  ELSE [res |-> ServiceValidationErr, key |-> "error_unknown",
        unavailable |-> TRUE]

\* The coordinator method ends: it raises r with translation key k, or
\* returns (r is Ok), having called async_rediscover_address n times and
\* read back the settings s; e is the exception of the client, if any.
CoordEnds(r, k, n, s, e) ==
  coord' = [coord EXCEPT !.at = "idle", !.res = r, !.key = k,
                         !.rediscover = n, !.settings = s, !.raised = e]

\* DataUpdateCoordinator refreshes: _async_update_data returns the data
\* read from the client.
RefreshOk ==
  /\ \E c \in BOOLEAN, s \in SettingsValues :
       coordinator_data' = [present |-> TRUE, connected |-> c,
                            available |-> TRUE, settings |-> s]
  /\ UNCHANGED <<clientVars, errVars, readVars, codecVars, protoVars, coord,
                 scan, entry>>

\* _async_update_data raises: every except clause but the one of
\* BleakConnectionError calls _set_unavailable.
RefreshFails(e) ==
  /\ coordinator_data' = IF e = BleakConnErr THEN coordinator_data
                         ELSE _set_unavailable(coordinator_data)
  /\ UNCHANGED <<clientVars, errVars, readVars, codecVars, protoVars, coord,
                 scan, entry>>

\* A coordinator method is called: up to the await of its first client
\* call.
CoordCall(op, arg) ==
  /\ coord.at = "idle"
  /\ coord' = [at |-> "write", op |-> op, arg |-> arg, res |-> "pending",
               key |-> "none", rediscover |-> 0, settings |-> NoSettings,
               raised |-> "none"]
  /\ UNCHANGED <<clientVars, errVars, readVars, codecVars, protoVars,
                 coordinator_data, scan, entry>>

\* The first client call returns: disconnect() is done, the setters go on
\* to _call(self._client.get_settings).
ClientReturns ==
  /\ coord.at = "write"
  /\ IF coord.op = "disconnect"
       THEN CoordEnds(Ok, "none", coord.rediscover, NoSettings, "none")
       ELSE coord' = [coord EXCEPT !.at = "readback"]
  /\ UNCHANGED <<clientVars, errVars, readVars, codecVars, protoVars,
                 coordinator_data, scan, entry>>

\* A client call made through _call raises e.
ClientRaises(e) ==
  /\ coord.at \in {"write", "readback"}
  /\ LET m == _call(e)
     IN  /\ CoordEnds(m.res, m.key,
                      coord.rediscover + (IF m.unavailable THEN 1 ELSE 0),
                      NoSettings, e)
         /\ coordinator_data' = IF m.unavailable
                                  THEN _set_unavailable(coordinator_data)
                                  ELSE coordinator_data
  /\ UNCHANGED <<clientVars, errVars, readVars, codecVars, protoVars, scan,
                 entry>>

\* get_settings returns s: the data is updated when there is data, and
\* the setting is compared with the argument.
ReadbackReturns(s) ==
  /\ coord.at = "readback"
  /\ coordinator_data' = IF coordinator_data.present
                           THEN [coordinator_data EXCEPT !.settings = s]
                           ELSE coordinator_data
  /\ IF Saved(coord.op, coord.arg, s)
       THEN CoordEnds(Ok, "none", coord.rediscover, s, "none")
       ELSE CoordEnds(ServiceValidationErr, NotSavedKey(coord.op),
                      coord.rediscover, s, "none")
  /\ UNCHANGED <<clientVars, errVars, readVars, codecVars, protoVars, scan,
                 entry>>

\* _connection_changed(connected), the client's connection callback.
ConnectionChanged(connected) ==
  /\ coordinator_data.present
  /\ coordinator_data.connected # connected
  /\ coordinator_data' = [coordinator_data EXCEPT !.connected = connected]
  /\ UNCHANGED <<clientVars, errVars, readVars, codecVars, protoVars, coord,
                 scan, entry>>

\* _unavailable_callback: the device is no longer seen.
UnavailableCallback ==
  /\ coordinator_data.present
  /\ coordinator_data.available
  /\ coordinator_data' = _set_unavailable(coordinator_data)
  /\ UNCHANGED <<clientVars, errVars, readVars, codecVars, protoVars, coord,
                 scan, entry>>

NextCoord ==
  \/ RefreshOk
  \/ \E e \in ClientErrors : RefreshFails(e)
  \/ \E op \in CoordOps : \E arg \in CoordArgs[op] : CoordCall(op, arg)
  \/ ClientReturns
  \/ \E e \in ClientErrors : ClientRaises(e)
  \/ \E s \in SettingsValues : ReadbackReturns(s)
  \/ \E c \in BOOLEAN : ConnectionChanged(c)
  \/ UnavailableCallback

SpecCoord == Init /\ [][NextCoord]_vars

\* --------------------------------------------------------------- SpecScan
\* _find_device_by_scanning (__init__.py) over what the scanner has
\* discovered: per device whether it advertises the service UUID, and its
\* RSSI.  establish_connection and validate_pin are the environment.

\* Devices the scanner has discovered, numbered in the order of the
\* dictionary discovered_devices_and_advertisement_data.
MaxDevices == 3
ScanDevices == 1..MaxDevices
\* adv_data.rssi
Rssis == {0 - 70, 0 - 50}

NotReady == "ConfigEntryNotReady"
OSErr == "OSError"
AttributeErr == "AttributeError"

\* expected_dev_id
ExpectedDevId == "devA"

\* The attributes of what validate_pin returns: the tuple
\* (is_valid, response) has neither is_valid nor dev_id.
ResultAttrs == {}

\* The candidates: the devices that advertise the UUID, sorted by
\* descending RSSI; list.sort is stable, so equal RSSIs keep the order of
\* discovery.
Candidates(discovered) ==
  LET devs == {d \in DOMAIN discovered : discovered[d].uuid}
      rank(d) == 1 + Cardinality(
                   {e \in devs : \/ discovered[e].rssi > discovered[d].rssi
                                 \/ /\ discovered[e].rssi = discovered[d].rssi
                                    /\ e < d})
  IN  [k \in 1..Cardinality(devs) |-> CHOOSE d \in devs : rank(d) = k]

\* The for loop goes on after candidate i: to the next candidate, or to
\* the raise statements after the loop.
NextCandidate(sc) ==
  IF sc.i < Len(sc.candidates)
    THEN [sc EXCEPT !.at = "connect", !.i = @ + 1]
    ELSE [sc EXCEPT !.at = "done",
                    !.res = IF sc.had_auth_failure THEN AuthFailed
                            ELSE NotReady]

\* What happened with candidate i: how establish_connection ended and
\* the response validate_pin got (NoResp when it got none).
Tried(sc, conn, rx) ==
  [sc EXCEPT !.tried = Append(@, [conn |-> conn, rx |-> rx])]

InitScan ==
  /\ ClientIdle
  /\ ErrIdle
  /\ ReadIdle
  /\ CodecIdle
  /\ ProtoIdle
  /\ coordinator_data = NoData
  /\ coord = NoCoordCall
  /\ scan \in {[NoScan EXCEPT !.discovered = d] :
                 d \in [ScanDevices -> [uuid : BOOLEAN, rssi : Rssis]]}
  /\ entry = NoEntry

\* _find_device_by_scanning up to its first await.
ScanStart ==
  /\ scan.at = "idle"
  /\ scan.res = "none"
  /\ LET c == Candidates(scan.discovered)
     IN  scan' = IF c = <<>>
                   THEN [scan EXCEPT !.at = "done", !.res = NotReady]
                   ELSE [scan EXCEPT !.at = "connect", !.candidates = c,
                                     !.i = 1]
  /\ UNCHANGED <<clientVars, errVars, readVars, codecVars, protoVars,
                 coordinator_data, coord, entry>>

\* establish_connection returns a client for candidate i.
ScanConnected ==
  /\ scan.at = "connect"
  /\ scan' = [scan EXCEPT !.at = "validate"]
  /\ UNCHANGED <<clientVars, errVars, readVars, codecVars, protoVars,
                 coordinator_data, coord, entry>>

\* establish_connection raises e: OSError and TimeoutError are caught and
\* the loop goes on; any other exception leaves the function.
ScanConnectRaises(e) ==
  /\ scan.at = "connect"
  /\ scan' = IF e \in {OSErr, TimeoutErr}
               THEN NextCandidate(Tried(scan, e, NoResp))
               ELSE [Tried(scan, e, NoResp) EXCEPT !.at = "done", !.res = e]
  /\ UNCHANGED <<clientVars, errVars, readVars, codecVars, protoVars,
                 coordinator_data, coord, entry>>

\* validate_pin raises TimeoutError: caught, the client is disconnected
\* and the loop goes on.
ScanValidateRaises ==
  /\ scan.at = "validate"
  /\ scan' = NextCandidate(Tried(scan, Ok, NoResp))
  /\ UNCHANGED <<clientVars, errVars, readVars, codecVars, protoVars,
                 coordinator_data, coord, entry>>

\* validate_pin returns (validate_pin(r), r) and the attributes is_valid
\* and dev_id of the result are read; the finally clause disconnects the
\* client.
ScanValidateReturns(r) ==
  /\ scan.at = "validate"
  /\ LET t == Tried(scan, Ok, r)
     IN  scan' =
           IF "is_valid" \notin ResultAttrs
             THEN [t EXCEPT !.at = "done", !.res = AttributeErr]
           ELSE IF ~validate_pin(r)
             THEN NextCandidate([t EXCEPT !.had_auth_failure = TRUE])
           ELSE IF "dev_id" \notin ResultAttrs
             THEN [t EXCEPT !.at = "done", !.res = AttributeErr]
           ELSE IF _extract_device_id(r) = ExpectedDevId
             THEN [t EXCEPT !.at = "done", !.res = Ok,
                            !.device = t.candidates[t.i]]
           ELSE NextCandidate(t)
  /\ UNCHANGED <<clientVars, errVars, readVars, codecVars, protoVars,
                 coordinator_data, coord, entry>>

NextScan ==
  \/ ScanStart
  \/ ScanConnected
  \/ \E e \in {OSErr, TimeoutErr, BleakErr} : ScanConnectRaises(e)
  \/ ScanValidateRaises
  \/ \E r \in DeviceResponses : ScanValidateReturns(r)

SpecScan == InitScan /\ [][NextScan]_vars

\* -------------------------------------------------------------- SpecSetup
\* async_setup_entry and async_unload_entry (__init__.py) for several
\* config entries, with the retry callback a failed setup registers.

\* Mutant: the callback is registered whether or not one is recorded.
_register_retry_callback_NoCheck(en) ==
  [en EXCEPT !.callback = TRUE, !.active = @ + 1]

\* _register_retry_callback on the entry en: nothing when BLE_CALLBACK is
\* recorded, else async_register_callback and the record of its handle.
_register_retry_callback(en) ==
  IF en.callback THEN en
  ELSE [en EXCEPT !.callback = TRUE, !.active = @ + 1]

InitSetup ==
  /\ ClientIdle
  /\ ErrIdle
  /\ ReadIdle
  /\ CodecIdle
  /\ ProtoIdle
  /\ coordinator_data = NoData
  /\ coord = NoCoordCall
  /\ scan = NoScan
  /\ entry \in {[e \in Entries |-> [NoEntry[e] EXCEPT !.random_mac = f[e]]] :
                  f \in [Entries -> BOOLEAN]}

\* Home Assistant sets up an entry that is not loaded.
CanSetup(e) == entry[e].state # "loaded"

\* async_setup_entry, the device is not found: with a static MAC
\* _resolve_device registers the callback before it raises, and the except
\* clause of async_setup_entry registers it again; with a random MAC the
\* scan raises and the except clause registers it.
SetupDeviceNotFound(e) ==
  /\ CanSetup(e)
  /\ LET once == _register_retry_callback(entry[e])
         done == IF entry[e].random_mac THEN once
                 ELSE _register_retry_callback(once)
     IN  entry' = [entry EXCEPT ![e] = [done EXCEPT !.state = "retry"]]
  /\ UNCHANGED <<clientVars, errVars, readVars, codecVars, protoVars,
                 coordinator_data, coord, scan>>

\* async_setup_entry with a random MAC, the scan raises
\* ConfigEntryAuthFailed: it is raised again.
SetupAuthFailed(e) ==
  /\ CanSetup(e)
  /\ entry[e].random_mac
  /\ entry' = [entry EXCEPT ![e].state = "auth_failed"]
  /\ UNCHANGED <<clientVars, errVars, readVars, codecVars, protoVars,
                 coordinator_data, coord, scan>>

\* async_setup_entry, the device is found but the first refresh fails:
\* ConfigEntryNotReady (or ConfigEntryAuthFailed) without a callback.
SetupRefreshFails(e) ==
  /\ CanSetup(e)
  /\ \E st \in {"retry", "auth_failed"} :
       entry' = [entry EXCEPT ![e].state = st]
  /\ UNCHANGED <<clientVars, errVars, readVars, codecVars, protoVars,
                 coordinator_data, coord, scan>>

\* async_setup_entry returns True.
SetupLoaded(e) ==
  /\ CanSetup(e)
  /\ entry' = [entry EXCEPT ![e].state = "loaded"]
  /\ UNCHANGED <<clientVars, errVars, readVars, codecVars, protoVars,
                 coordinator_data, coord, scan>>

\* async_unload_entry: the recorded handle is called, which unregisters
\* the callback; the record stays in hass.data.
Unload(e) ==
  /\ entry[e].state = "loaded"
  /\ entry' = [entry EXCEPT ![e].state = "not_loaded",
                            ![e].active = IF entry[e].callback THEN 0 ELSE @]
  /\ UNCHANGED <<clientVars, errVars, readVars, codecVars, protoVars,
                 coordinator_data, coord, scan>>

NextSetup ==
  \E e \in Entries :
    \/ SetupDeviceNotFound(e)
    \/ SetupAuthFailed(e)
    \/ SetupRefreshFails(e)
    \/ SetupLoaded(e)
    \/ Unload(e)

SpecSetup == InitSetup /\ [][NextSetup]_vars

\* ------------------------------------------------------------ SpecService
\* The change_pin service (services.py) called for the device of entry 1:
\* coordinator.change_pin, the client's change_pin, the disconnect and the
\* update of the config entry.

\* new_pin of the service call, as the schema admits it: "54321", "01234".
NewPins == {<<53, 52, 51, 50, 49>>, <<48, 49, 50, 51, 52>>}

\* int(p) of a string of decimal digits.
RECURSIVE int(_)
int(p) ==
  IF p = <<>> THEN 0
  ELSE 10 * int(SubSeq(p, 1, Len(p) - 1)) + (p[Len(p)] - 48)

InitService ==
  /\ ClientIdle
  /\ ErrIdle
  /\ ReadIdle
  /\ CodecIdle
  /\ ProtoIdle
  /\ coordinator_data = NoData
  /\ coord = NoCoordCall
  /\ scan = NoScan
  /\ entry = [e \in Entries |->
                [NoEntry[e] EXCEPT !.state = "loaded",
                                   !.pin = int(InitialPin)]]

\* handle_change_pin up to the first await: coordinator.change_pin calls
\* the client's change_pin through _call.
ServiceChangePin(new_pin, update_config) ==
  /\ coord.at = "idle"
  /\ entry[1].state = "loaded"
  /\ coord' = [at |-> "write", op |-> "change_pin",
               arg |-> IF update_config THEN 1 ELSE 0, res |-> "pending",
               key |-> "none", rediscover |-> 0, settings |-> NoSettings,
               raised |-> "none"]
  /\ Proceeds("change_pin", new_pin)
  /\ response' = NoResp
  /\ UNCHANGED <<clientVars, outcome, readVars, codecVars, pin, protocol,
                 sent, written, coordinator_data, scan, entry>>

\* The device answers the change request with r: _execute_transaction
\* checks it, the client's change_pin stores the PIN on type 2 and
\* returns, and coordinator.change_pin, which drops the value returned,
\* goes on to self.disconnect().
ChangePinAnswered(r) ==
  /\ coord.at = "write"
  /\ coord.op = "change_pin"
  /\ response' = r
  /\ LET k == CheckResponse(r, session)
     IN  IF k.raised # Ok
           THEN /\ Ends(call.op, call.arg, k.raised, "None")
                /\ CoordEnds(_call(k.raised).res, _call(k.raised).key,
                             coord.rediscover, NoSettings, k.raised)
                /\ pin' = pin
           ELSE /\ Ends(call.op, call.arg, Ok, ReturnValue(call.op, r))
                /\ coord' = [coord EXCEPT !.at = "disconnect"]
                /\ pin' = change_pin(pin, call.arg, r)
  /\ UNCHANGED <<clientVars, outcome, readVars, codecVars, protocol, sent,
                 written, coordinator_data, scan, entry>>

\* The client's change_pin raises e: _call passes it on.
ChangePinRaises(e) ==
  /\ coord.at = "write"
  /\ coord.op = "change_pin"
  /\ Ends(call.op, call.arg, e, "None")
  /\ CoordEnds(_call(e).res, _call(e).key,
               coord.rediscover + (IF _call(e).unavailable THEN 1 ELSE 0),
               NoSettings, e)
  /\ UNCHANGED <<clientVars, errVars, readVars, codecVars, pin, protocol,
                 sent, written, coordinator_data, scan, entry>>

\* self.disconnect() returns and with it coordinator.change_pin: with
\* update_config the handler writes int(new_pin) into the entry and
\* reloads it, and the setup of the reload succeeds or does not.
ServiceUpdatesEntry ==
  /\ coord.at = "disconnect"
  /\ CoordEnds(Ok, "none", coord.rediscover, NoSettings, "none")
  /\ IF coord.arg = 1
       THEN \E st \in {"loaded", "retry"} :
              entry' = [entry EXCEPT ![1].pin = int(call.arg),
                                     ![1].state = st]
       ELSE entry' = entry
  /\ UNCHANGED <<clientVars, errVars, readVars, codecVars, protoVars,
                 coordinator_data, scan>>

\* self.disconnect() raises e: the handler ends without touching the
\* entry.
ServiceDisconnectRaises(e) ==
  /\ coord.at = "disconnect"
  /\ CoordEnds(_call(e).res, _call(e).key,
               coord.rediscover + (IF _call(e).unavailable THEN 1 ELSE 0),
               NoSettings, e)
  /\ UNCHANGED <<clientVars, errVars, readVars, codecVars, protoVars,
                 coordinator_data, scan, entry>>

NextService ==
  \/ \E p \in NewPins, u \in BOOLEAN : ServiceChangePin(p, u)
  \/ \E r \in DeviceResponses : ChangePinAnswered(r)
  \/ \E e \in ClientErrors : ChangePinRaises(e)
  \/ ServiceUpdatesEntry
  \/ \E e \in ClientErrors : ServiceDisconnectRaises(e)
  \/ \E e \in Entries : SetupLoaded(e)

SpecService == InitService /\ [][NextService]_vars

\* ----------------------------------------------------------------- claims

\* Task t has a transaction on the wire: at least one packet of its request
\* is written and its response is not read yet.
OnWire(t) ==
  \/ pc[t] \in {"send_write", "pair_write"} /\ wr[t] > 0
  \/ pc[t] \in {"send_read", "send_ready", "pair_read", "pair_ready"}

\* Task t is inside a connect attempt: establish_connection or pairing.
InAttempt(t) ==
  pc[t] \in {"establish", "pair_write", "pair_read", "pair_ready"}

\* The error list the client reads from a response holds an entry with
\* err_code 4: body.pars.errs, or body.results[0].pars.errs when the body
\* has no pars.
CarriesAuthError(r) ==
  \/ r.pars.present /\ \E i \in 1..Len(r.pars.errs) : r.pars.errs[i] = 4
  \/ /\ ~r.pars.present
     /\ r.results.present
     /\ \E i \in 1..Len(r.results.errs) : r.results.errs[i] = 4

\* An entry with err_code 4 in either shape.
AnyAuthError(r) ==
  \/ \E i \in 1..Len(r.pars.errs) : r.pars.errs[i] = 4
  \/ \E i \in 1..Len(r.results.errs) : r.results.errs[i] = 4

\* In this step task t leaves the await of the pairing response / of the
\* request's response / of BleakClient.disconnect().
PairingEnds(t) == pc[t] = "pair_ready" /\ pc'[t] # "pair_ready"
RequestEnds(t) == pc[t] = "send_ready" /\ pc'[t] # "send_ready"
DisconnectEnds(t) == pc[t] = "disc_wait" /\ pc'[t] # "disc_wait"

\* In this step task t, queued for the lock, gets it.
LeavesQueue(t) ==
  /\ pc[t] = "lockwait"
  /\ pc'[t] # "lockwait" \/ ret'[t] # ret[t]

\* C1: at most one transaction is in flight on a connection: no two tasks
\* have a request written and its response outstanding on the same
\* transport at the same time.
C1_OneTransactionInFlight ==
  \A t, u \in Tasks :
    (t # u /\ OnWire(t) /\ OnWire(u)) => loc[t].client # loc[u].client

\* C2 (as claimed): on a client that has been Disconnected since it was
\* constructed, a caller that queued behind a connect attempt never starts
\* an attempt of its own.
C2_WaitersNeverConnect ==
  [][\A t \in Tasks :
       (pc[t] = "lockwait" /\ cb = NoCb) => pc'[t] # "establish"]_vars

\* C2 (amended): a caller that queued behind a connect attempt and finds a
\* session when it gets the lock returns that session: it opens no
\* transport, sends no pairing request and goes on to send its own request
\* on that session; it starts an attempt of its own only when no session
\* is present.
C2_WaiterReusesSession ==
  [][\A t \in Tasks :
       LeavesQueue(t) =>
         IF session # NoSession
           THEN /\ transport' = transport
                /\ session' = session
                /\ cb' = cb
                /\ ~InAttempt(t)'
                /\ pc'[t] = "send_write" => loc'[t] = session
           ELSE InAttempt(t)']_vars

C2_Witness ==
  \E t \in Tasks :
    /\ pc[t] = "lockwait"
    /\ waiters # <<>>
    /\ Head(waiters) = t
    /\ holder = 0
    /\ session # NoSession
    /\ last.at = "pair"
    /\ last.res = Ok

\* C3: at most one connect attempt (establish_connection followed by the
\* pairing transaction) is in progress per client, and the task running it
\* holds _connect_lock.
C3_OneConnectAttempt ==
  \A t, u \in Tasks :
    (InAttempt(t) /\ InAttempt(u)) => (t = u /\ holder = t)

C3_Witness ==
  \E t, u \in Tasks :
    /\ InAttempt(t)
    /\ loc[t].client # 0
    /\ pc[u] = "lockwait"
    /\ last.at \in {"establish", "pair"}
    /\ last.res # Ok

C5_AuthErrorDisconnects ==
  [][\A t \in Tasks :
       (RequestEnds(t) /\ last'.rx # NoResp /\ CarriesAuthError(last'.rx))
         => /\ last'.res = AuthError
            /\ session' = NoSession
            /\ device_id' = NoDev]_vars

\* C5 (amended): a response to a typed operation whose error list holds
\* err_code 4 raises BlancoUnitAuthenticationError and changes nothing
\* else: the session handle, the device id, the transport and the
\* connection callback are as before.
C5_AuthErrorKeepsSession ==
  [][\A t \in Tasks :
       (RequestEnds(t) /\ last'.rx # NoResp /\ CarriesAuthError(last'.rx))
         => /\ last'.at = "send"
            /\ last'.res = AuthError
            /\ pc'[t] = "idle"
            /\ session' = session
            /\ device_id' = device_id
            /\ transport' = transport
            /\ cb' = cb]_vars

C5_Witness ==
  /\ last.at = "send"
  /\ last.res = AuthError
  /\ CarriesAuthError(last.rx)
  /\ session # NoSession
  /\ device_id = "devA"

\* C6: a pairing response with no dev_id and no err_code 4 makes the
\* connect raise BlancoUnitConnectionError, and no session handle is
\* stored.
C6_NoDeviceIdIsConnectionError ==
  [][\A t \in Tasks :
       (/\ PairingEnds(t)
        /\ last'.rx # NoResp
        /\ last'.rx.dev_id = NoDev
        /\ ~AnyAuthError(last'.rx))
         => /\ last'.res = ConnError
            /\ session' = NoSession]_vars

\* C7 (as claimed): _execute_transaction raises
\* BlancoUnitAuthenticationError exactly when an entry with err_code 4 is
\* in body.pars.errs or in body.results[0].pars.errs, and returns the
\* response unchanged otherwise.
C7_RaisesOnEitherShape ==
  outcome # Pending =>
    IF AnyAuthError(response)
      THEN outcome.raised = AuthError
      ELSE outcome.raised = Ok /\ outcome.value = response

\* C7 (amended): _execute_transaction raises BlancoUnitAuthenticationError
\* exactly when an entry with err_code 4 is in the one error list it
\* reads (body.pars.errs when the body has pars, else
\* body.results[0].pars.errs), and returns the response unchanged in every
\* other case.
C7_RaisesOnSelectedShape ==
  outcome # Pending =>
    IF CarriesAuthError(response)
      THEN outcome.raised = AuthError
      ELSE outcome.raised = Ok /\ outcome.value = response

C7_Witness ==
  /\ outcome # Pending
  /\ outcome.raised = Ok
  /\ outcome.value = response
  /\ response.pars.present
  /\ response.pars.errs = <<5>>
  /\ response.results.present
  /\ response.results.errs = <<4>>

\* C8: when a transport reports a disconnect, the session handle is
\* cleared before the connection callback runs with false: the callback
\* finds no session handle, and none is left when the step is over.
C8_ClearBeforeNotify ==
  [][\A c \in Transports :
       (transport[c] = "connected" /\ transport'[c] = "disconnected")
         => /\ cb'.arg = "False"
            /\ cb'.seen = NoSession
            /\ session' = NoSession]_vars

C8_Witness ==
  /\ cb.arg = "False"
  /\ cb.seen = NoSession
  /\ session = NoSession
  /\ last.at = "pair"
  /\ last.res = Ok
  /\ transport[1] = "disconnected"

\* C9: when disconnect() has completed no session handle is left
\* (device_id is None).
C9_DisconnectDestroysSession ==
  [][\A t \in Tasks :
       DisconnectEnds(t) => (session' = NoSession /\ device_id' = NoDev)]_vars

\* C10: disconnect() on a client without session handle calls no
\* transport, invokes no callback and changes no state of the client or of
\* any task.
C10_DisconnectIdempotent ==
  [][\A t \in Tasks :
       (/\ pc[t] = "idle"
        /\ session = NoSession
        /\ \/ pc'[t] = "disc_wait"
           \/ /\ last' # last
              /\ last'.at = "disconnect"
              /\ \A u \in Tasks : ~DisconnectEnds(u))
         => /\ pc' = pc
            /\ loc' = loc
            /\ session' = NoSession
            /\ transport' = transport
            /\ cb' = cb
            /\ holder' = holder
            /\ waiters' = waiters]_vars

C10_Witness ==
  /\ last.at = "disconnect"
  /\ last.res = Ok
  /\ session = NoSession
  /\ cb = NoCb
  /\ \A c \in Transports : transport[c] = "unopened"
  /\ \A t \in Tasks : pc[t] = "idle"

\* The total declared by the header among the collected chunks: the third
\* byte of the latest chunk that begins with 0xFF; one chunk is expected
\* while there is none.
Declared ==
  LET hs == {i \in 1..Len(chunks) :
               Len(chunks[i]) >= 3 /\ chunks[i][1] = 255}
  IN  IF hs = {} THEN 1
      ELSE chunks[CHOOSE i \in hs : \A j \in hs : j <= i][3]

\* A read of the characteristic raised in this step.
ReadErrorStep == read'.calls = read.calls + 1 /\ read'.raised

\* C11: read_response_chunks issues at most 40 reads and is over after the
\* 40th; it goes on polling only while fewer chunks than the header
\* declares are collected, returns exactly when that number is collected,
\* and raises TimeoutError when it ends with any other number of chunks.
C11_TerminatesWithin40Reads ==
  /\ read.calls <= 40
  /\ read.calls = 40 => rd # "polling"
  /\ rd = "polling" => Len(chunks) < Declared
  /\ rd = "returned" => Len(chunks) = Declared
  /\ rd = TimeoutErr => Len(chunks) # Declared

C11_Witness ==
  /\ rd = TimeoutErr
  /\ read.calls = 40
  /\ ~read.raised
  /\ Len(chunks) = 1
  /\ chunks[1][3] = 2

\* C12 (as claimed): a read that raises is counted as one attempt and the
\* polling goes on while the budget of 40 attempts is not used up.
C12_ReadErrorCountsAsAttempt ==
  [][ReadErrorStep
       => /\ attempts' = attempts + 1
          /\ attempts' < 40 => rd' = "polling"]_vars

\* C12 (amended): a read that raises ends the polling at once: it is not
\* counted as an attempt, nothing is collected, no further read is issued
\* and read_response_chunks raises TimeoutError, whatever is left of the
\* budget.
C12_ReadErrorEndsPolling ==
  [][ReadErrorStep
       => /\ attempts' = attempts
          /\ chunks' = chunks
          /\ expected' = expected
          /\ rd' = TimeoutErr]_vars

C12_Witness ==
  /\ rd = TimeoutErr
  /\ read.raised
  /\ read.calls = 2
  /\ attempts = 1
  /\ Len(chunks) = 1
  /\ expected = 2

\* 1 + ceil(max(0, len(payload) + 2 - first_cap) / next_cap) for the
\* document and the MTU under test (an MTU above 2).
PacketCount ==
  LET over == Len(json_dumps(json_data)) + 2 - (mtu - 5)
  IN  1 + CeilDiv(IF over < 0 THEN 0 ELSE over, mtu - 2)

\* The round trip's preconditions: MTU >= 10 and msg_id in 1..254.
RoundTripInput == mtu >= 10 /\ msg_id \in 1..254

\* C13 (as claimed): for every document, MTU >= 10 and msg_id in 1..254,
\* create_packets returns packets and parse_response of these packets
\* returns the document.
C13_RoundTrip ==
  RoundTripInput
    => /\ packets # NoPackets => packets.raised = Ok
       /\ parsed # NoDoc => parsed = [raised |-> Ok, doc |-> json_data]

\* C13 (amended): the same for every document that fits in 255 packets;
\* for a longer one create_packets raises ValueError and returns nothing.
C13_RoundTripUpTo255Packets ==
  (RoundTripInput /\ packets # NoPackets)
    => IF PacketCount <= 255
         THEN /\ packets.raised = Ok
              /\ parsed # NoDoc => parsed = [raised |-> Ok, doc |-> json_data]
         ELSE packets = [raised |-> ValueErr, packets |-> <<>>]

C13_Witness ==
  /\ mtu = 10
  /\ Len(packets.packets) = 255
  /\ parsed = [raised |-> Ok, doc |-> json_data]

\* C14 (as claimed): for every document and MTU create_packets emits
\* 1 + ceil(max(0, len(payload)+2-first_cap)/next_cap) packets and the
\* third byte of the header packet is that number.
C14_PacketCount ==
  packets # NoPackets
    => /\ packets.raised = Ok
       /\ Len(packets.packets) = PacketCount
       /\ packets.packets[1][3] = Len(packets.packets)

\* C14 (amended): the same for every MTU of 3 or more and every document
\* for which that number is at most 255; in every other case
\* create_packets raises and emits no packet.
C14_PacketCountUpTo255 ==
  packets # NoPackets
    => IF mtu >= 3 /\ PacketCount <= 255
         THEN /\ packets.raised = Ok
              /\ Len(packets.packets) = PacketCount
              /\ packets.packets[1][3] = Len(packets.packets)
         ELSE /\ packets.raised \in {ValueErr, ZeroDivErr}
              /\ packets.packets = <<>>

C14_Witness ==
  /\ mtu = 16
  /\ packets.raised = Ok
  /\ Len(packets.packets) = 2
  /\ packets.packets[1][3] = 2
  /\ Len(packets.packets[1]) = 16

\* An argument the claim calls invalid.
InvalidArgument(op, arg) ==
  \/ op = "set_temperature" /\ arg[1] \notin 4..10
  \/ op = "set_water_hardness" /\ arg[1] \notin 1..9
  \/ /\ op = "dispense_water"
     /\ arg[1] \notin {100 * k : k \in 1..15} \/ arg[2] \notin 1..3
  \/ /\ op = "change_pin"
     /\ Len(arg) # 5 \/ \E i \in 1..Len(arg) : arg[i] \notin 48..57

\* In this step an envelope is written to a transport.
EnvelopeWritten == sent' # sent \/ written' # written

\* C15: a typed operation called with an invalid argument raises
\* ValueError and nothing else happens: no transport is opened, nothing
\* is written, and the session handle, the message id counter, the stored
\* PIN and the connection callback are as before.
C15_ValidationBeforeTransport ==
  [][(/\ call.at = "idle"
      /\ call' # call
      /\ call'.op \in Ops
      /\ InvalidArgument(call'.op, call'.arg))
       => /\ call'.at = "idle"
          /\ call'.res = ValueErr
          /\ transport' = transport
          /\ session' = session
          /\ protocol' = protocol
          /\ pin' = pin
          /\ ~EnvelopeWritten
          /\ cb' = cb]_vars

C15_Witness ==
  /\ call.op = "change_pin"
  /\ call.arg = <<49, 50, 97, 52, 53>>
  /\ call.res = ValueErr
  /\ session # NoSession
  /\ protocol.msg_id_counter = 3
  /\ pin = InitialPin

\* C16: every envelope written has salt = str(session) + str(id) and is
\* signed with the PIN stored when it is built; a change_pin that returns
\* true has stored the new PIN, with which every later envelope is signed.
C16_EnvelopeSigned ==
  [][/\ EnvelopeWritten
          => /\ sent'.env.salt = Str(sent'.env.session) \o Str(sent'.env.id)
             /\ sent'.env.session = protocol'.session_id
             /\ sent'.env.token =
                  [sha256 |-> <<[sha256 |-> pin], sent'.env.salt>>]
     /\ (call'.op = "change_pin" /\ call'.value = "True" /\ call' # call)
          => pin' = call'.arg]_vars

C16_Witness ==
  /\ pin = <<53, 52, 51, 50, 49>>
  /\ sent.env.meta.evt_type = 10
  /\ sent.env.token = [sha256 |-> <<[sha256 |-> pin], sent.env.salt>>]
  /\ sent.env.salt = <<9, 9, 9, 9, 9, 9, 9, 7, 6, 5, 4, 3, 2, 1>>
  /\ sent.client = 2

\* C17: the first envelope written on a connection, the pairing request,
\* has evt_type 10 and no dev_id in its meta; every later envelope on
\* that connection carries the dev_id of its pairing response.
C17_DevIdFromPairing ==
  [][EnvelopeWritten
       => IF written' = 1
            THEN /\ sent'.env.meta.evt_type = 10
                 /\ "dev_id" \notin DOMAIN sent'.env.meta
            ELSE /\ sent'.env.meta.evt_type # 10
                 /\ "dev_id" \in DOMAIN sent'.env.meta
                 /\ sent'.client = sent.client
                 /\ last.at = "pair"
                 /\ last.res = Ok
                 /\ sent'.env.meta.dev_id = last.rx.dev_id]_vars

C17_Witness ==
  /\ written = 2
  /\ sent.client = 2
  /\ "dev_id" \in DOMAIN sent.env.meta
  /\ sent.env.meta.dev_id = "devB"
  /\ last.rx.dev_id = "devB"

AttemptEnds(t) == InAttempt(t) /\ ~InAttempt(t)'

\* C19: while a session handle is present no step opens a transport and
\* no task is in a connect attempt (nothing is established, no pairing
\* request is sent); a typed operation that starts sending uses the
\* session that is present.
C19_ReusesConnection ==
  [][session # NoSession
       => /\ \A c \in Transports :
               transport[c] = "unopened" => transport'[c] = "unopened"
          /\ \A t \in Tasks : ~InAttempt(t) /\ ~InAttempt(t)'
          /\ \A t \in Tasks :
               (pc[t] \in {"idle", "lockwait"} /\ pc'[t] = "send_write")
                 => loc'[t] = session]_vars

C19_Witness ==
  /\ session # NoSession
  /\ last.at = "send"
  /\ last.res = Ok
  /\ \E t \in Tasks : pc[t] = "send_read" /\ loc[t] = session
  /\ \A c \in Transports : c # session.client => transport[c] = "unopened"

\* C20: the connection callback is invoked with true when a pairing
\* succeeds and with false when a transport disconnects, and it is not
\* invoked when a connect attempt fails.
C20_CallbackFollowsPairing ==
  [][/\ \A t \in Tasks :
          (AttemptEnds(t) /\ last'.at = "pair" /\ last'.res = Ok)
            => cb'.arg = "True" /\ cb'.seen = session'
     /\ \A c \in Transports :
          (transport[c] = "connected" /\ transport'[c] = "disconnected")
            => cb'.arg = "False"
     /\ \A t \in Tasks :
          (AttemptEnds(t) /\ last'.res # Ok) => cb' = cb]_vars


\* --------------------------------------------------------------------- C21
\* The first chunk of the stream does not start with 0xFF.
BadHeader(s) == Len(s[1]) = 0 \/ s[1][1] # 255

\* A continuation chunk has a first byte that is not the header's 4th byte.
IdMismatch(s) ==
  /\ Len(s[1]) >= 4
  /\ \E i \in 2..Len(s) : Len(s[i]) >= 1 /\ s[i][1] # s[1][4]

\* C21: parse_response raises ValueError and returns no document when the
\* chunk list is empty, when the first chunk does not start with 0xFF, and
\* when a continuation chunk's first byte differs from the message id in
\* the header's 4th byte.
C21_MalformedIsValueError ==
  parsed # NoDoc =>
    LET s == packets.packets
    IN  (s = <<>> \/ BadHeader(s) \/ IdMismatch(s))
          => parsed.raised = ValueErr /\ parsed.doc = <<>>

\* --------------------------------------------------------------------- C22
\* In this step a change_pin call that went through _connect ends.
ChangePinEnds ==
  call.at = "sending" /\ call.op = "change_pin" /\ call'.at = "idle"

\* C22: change_pin stores new_pin and returns true when the response of
\* its transaction has type 2; it returns false and keeps the PIN when the
\* response has another type; when the transaction raises, the error
\* reaches the caller and the PIN is kept.
C22_PinFollowsAck ==
  [][ChangePinEnds
       => /\ (call'.res = Ok /\ response'.type = ACK_TYPE)
               => pin' = call.arg /\ call'.value = "True"
          /\ (call'.res = Ok /\ response'.type # ACK_TYPE)
               => pin' = pin /\ call'.value = "False"
          /\ call'.res # Ok
               => /\ pin' = pin
                  /\ call'.value = "None"
                  /\ call'.res \in {TimeoutErr, AuthError}
          /\ call'.res = AuthError
               <=> HasAuthErrorEntry(extract_errors(response'))]_vars

C22_Witness ==
  /\ call.op = "change_pin"
  /\ call.res = Ok
  /\ call.value = "False"
  /\ response.type = 1
  /\ call.arg = <<53, 52, 51, 50, 49>>
  /\ pin = InitialPin

C24_DispenseValidation ==
  [][(call.at = "idle" /\ call'.op = "dispense_water" /\ call' # call)
       => IF /\ \E k \in 1..15 : call'.arg[1] = 100 * k
             /\ call'.arg[2] \in {1, 2, 3}
            THEN call'.res # ValueErr
            ELSE call'.res = ValueErr /\ call'.at = "idle"]_vars

C24_Witness ==
  /\ call.op = "dispense_water"
  /\ call.arg = <<1500, 3>>
  /\ call.res = Ok
  /\ call.value = "True"

\* --------------------------------------------------------------------- C25
\* In this step a set_temperature or set_water_hardness of the coordinator
\* ends.
SetterEnds == coord.at # "idle" /\ coord.op # "disconnect" /\ coord'.at = "idle"

\* In this step it ends after get_settings returned coord'.settings.
ReadBackEnds == SetterEnds /\ coord'.settings # NoSettings

\* The setting that op writes, in the settings s.
Written(op, s) ==
  IF op = "set_temperature" THEN s.set_point_cooling ELSE s.wtr_hardness

\* A setter returns without error only after get_settings reported the
\* requested value, and raises not_saved_* when it reported another one.
Verified ==
  /\ (SetterEnds /\ coord'.res = Ok)
       => ReadBackEnds /\ Written(coord.op, coord'.settings) = coord.arg
  /\ (ReadBackEnds /\ Written(coord.op, coord'.settings) # coord.arg)
       => /\ coord'.res = ServiceValidationErr
          /\ coord'.key = NotSavedKey(coord.op)

\* C25 as stated: a setter of the coordinator returns without error only
\* if the settings read back hold the requested value and raises
\* ServiceValidationError not_saved_* otherwise, and in both cases the
\* coordinator data holds the settings read back.
C25_VerifiedAndStored ==
  [][/\ Verified
     /\ ReadBackEnds
          => /\ coordinator_data'.present
             /\ coordinator_data'.settings = coord'.settings]_vars

\* C25 amended: the same, the coordinator data holding the settings read
\* back when the coordinator has data; a coordinator that has no data yet
\* stays without data.
C25_VerifiedAndStoredIfData ==
  [][/\ Verified
     /\ ReadBackEnds
          => IF coordinator_data.present
               THEN /\ coordinator_data'.present
                    /\ coordinator_data'.settings = coord'.settings
               ELSE coordinator_data' = NoData]_vars

C25_Witness ==
  /\ coord.op = "set_water_hardness"
  /\ coord.arg = 5
  /\ coord.res = ServiceValidationErr
  /\ coord.key = "not_saved_water_hardness"
  /\ coord.settings.wtr_hardness = 3
  /\ coordinator_data.present
  /\ coordinator_data.settings = coord.settings

\* --------------------------------------------------------------------- C26
\* In this step a client call made through _call raises coord'.raised.
CallFails == coord.at # "idle" /\ coord'.at = "idle" /\ coord'.raised # "none"

\* _set_unavailable ran in this step: rediscovery was triggered and the
\* entities of the device are unavailable.
MarkedUnavailable ==
  /\ coord'.rediscover = coord.rediscover + 1
  /\ ~available(coordinator_data')

\* C26: a client call made through _call that raises
\* BlancoUnitAuthenticationError ends with ConfigEntryAuthFailed; one that
\* raises BleakConnectionError or BleakNotFoundError ends with
\* ServiceValidationError error_device_not_found, any other one with
\* ServiceValidationError error_unknown, and in these cases the device is
\* marked unavailable and rediscovery is triggered before the error is
\* raised.
C26_CallMapsFailures ==
  [][CallFails
       => IF coord'.raised = "BlancoUnitAuthenticationError"
            THEN /\ coord'.res = "ConfigEntryAuthFailed"
                 /\ coord'.rediscover = coord.rediscover
                 /\ coordinator_data' = coordinator_data
          ELSE IF coord'.raised \in {"BleakConnectionError",
                                      "BleakNotFoundError"}
            THEN /\ coord'.res = "ServiceValidationError"
                 /\ coord'.key = "error_device_not_found"
                 /\ MarkedUnavailable
          ELSE /\ coord'.res = "ServiceValidationError"
               /\ coord'.key = "error_unknown"
               /\ MarkedUnavailable]_vars

C26_Witness ==
  /\ coord.raised = "BleakConnectionError"
  /\ coord.op = "set_temperature"
  /\ coord.key = "error_device_not_found"
  /\ coord.rediscover = 1
  /\ coordinator_data.present
  /\ coordinator_data.connected
  /\ ~coordinator_data.available

\* --------------------------------------------------------------------- C29
\* C29: DisconnectButton is available only while the coordinator data is
\* both available and connected.
C29_ButtonNeedsAvailableAndConnected ==
  (coordinator_data.present /\ DisconnectButton_available(coordinator_data))
    => coordinator_data.available /\ coordinator_data.connected

\* --------------------------------------------------------------------- C27
\* Candidate k of the scan connected, its PIN was accepted and its dev_id
\* is the expected one.
Matches(k) ==
  /\ scan.tried[k].conn = Ok
  /\ scan.tried[k].rx # NoResp
  /\ ~HasAuthErrorEntry(extract_errors(scan.tried[k].rx))
  /\ scan.tried[k].rx.dev_id = ExpectedDevId

\* Candidate k of the scan connected and its PIN was rejected.
Rejected(k) ==
  /\ scan.tried[k].conn = Ok
  /\ scan.tried[k].rx # NoResp
  /\ \/ HasAuthErrorEntry(extract_errors(scan.tried[k].rx))
     \/ scan.tried[k].rx.dev_id = NoDev

\* C27: the scan tries the devices that advertise the service UUID in
\* order of descending RSSI; it returns the first candidate whose PIN is
\* accepted and whose dev_id is the expected one, skipping candidates
\* whose connection fails; when no candidate matches it raises
\* ConfigEntryAuthFailed if a candidate rejected the PIN and
\* ConfigEntryNotReady otherwise.
C27_ScanReturnsFirstMatch ==
  scan.at = "done" =>
    LET n == Len(scan.tried)
        c == scan.candidates
    IN  /\ {c[k] : k \in 1..Len(c)}
             = {d \in ScanDevices : scan.discovered[d].uuid}
        /\ \A k \in 1..(Len(c) - 1) :
             scan.discovered[c[k]].rssi >= scan.discovered[c[k + 1]].rssi
        /\ \A k \in 1..(n - 1) : ~Matches(k)
        /\ IF n > 0 /\ Matches(n)
             THEN scan.res = Ok /\ scan.device = c[n]
             ELSE /\ n = Len(c)
                  /\ scan.res = IF \E k \in 1..n : Rejected(k)
                                  THEN "ConfigEntryAuthFailed"
                                  ELSE "ConfigEntryNotReady"

\* --------------------------------------------------------------------- C28
\* C28: a config entry never has more than one retry callback registered;
\* a callback is registered only by a step that finds none recorded for
\* the entry, and that step registers one and records it.
C28_OneRetryCallback ==
  [][\A e \in Entries :
       /\ entry'[e].active <= 1
       /\ entry'[e].active > entry[e].active
            => /\ ~entry[e].callback
               /\ entry'[e].callback
               /\ entry'[e].active = entry[e].active + 1
       /\ entry[e].callback
            => entry'[e].callback /\ entry'[e].active <= entry[e].active]_vars

C28_Witness ==
  /\ entry[1].state = "retry"
  /\ ~entry[1].random_mac
  /\ entry[1].callback
  /\ entry[1].active = 1
  /\ entry[2].state = "loaded"
  /\ entry[2].callback
  /\ entry[2].active = 1

\* --------------------------------------------------------------------- C30
WriteAwaits == {"pair_write", "send_write"}
ReadAwaits == {"pair_read", "send_read"}

\* C30: within one transaction a task awaits one write at a time, packet
\* wr[t] of total[t]: every completed write is that of the next packet in
\* fragment order, and the task reaches the first read only by the write
\* of the last packet.
C30_WritesInOrderThenRead ==
  [][\A t \in Tasks :
       /\ pc[t] \in WriteAwaits
            => /\ wr[t] < total[t]
               /\ \/ pc'[t] = "idle"
                  \/ /\ wr'[t] = wr[t] + 1
                     /\ total'[t] = total[t]
                     /\ loc'[t] = loc[t]
                     /\ pc'[t] = IF wr'[t] < total[t] THEN pc[t]
                                 ELSE IF pc[t] = "pair_write" THEN "pair_read"
                                 ELSE "send_read"
                  \/ UNCHANGED <<pc[t], wr[t], total[t], loc[t]>>
       /\ pc[t] \notin WriteAwaits => wr'[t] \in {0, wr[t]}
       /\ pc'[t] \in ReadAwaits => wr'[t] = total'[t]
       /\ pc'[t] \in WriteAwaits /\ pc[t] \notin WriteAwaits
            => wr'[t] = 0 /\ total'[t] > 0]_vars

C30_Witness ==
  \E t \in Tasks :
    /\ pc[t] = "send_read"
    /\ total[t] >= 2
    /\ wr[t] = total[t]

\* --------------------------------------------------------------------- C31
\* The value the previous read returned; the initial last_data before
\* the first read.
PreviousRead == IF read.calls = 0 THEN <<>> ELSE read.data

\* C31: a read that returns the bytes of the previous read leaves the
\* chunks as they are; a read appends at most the value it returned, and
\* only if that differs from the previous read's; so no two neighbours in
\* the list are equal.
C31_UnchangedReadNotAppended ==
  [][/\ read'.calls = read.calls + 1 /\ ~read'.raised
          /\ read'.data = PreviousRead
        => chunks' = chunks
     /\ chunks' # chunks
        => /\ chunks' = Append(chunks, read'.data)
           /\ read'.data # PreviousRead
     /\ \A i \in 1..(Len(chunks') - 1) : chunks'[i] # chunks'[i + 1]]_vars

C31_Witness ==
  /\ rd = "polling"
  /\ read.calls = 3
  /\ attempts = 3
  /\ read.data = <<255, 0, 2, 10, 0, 123>>
  /\ chunks = <<read.data>>

\* --------------------------------------------------------------------- C39
\* C39: when read_response_chunks returns a list whose first chunk is a
\* header, the list is as long as that header declares.
C39_CountFixedByFirstChunk ==
  rd = "returned" /\ Len(chunks[1]) >= 3 /\ chunks[1][1] = 255
    => Len(chunks) = chunks[1][3]

\* --------------------------------------------------------------------- C40
\* C40: a list read_response_chunks returns holds no empty chunk.
C40_NoEmptyChunkReturned ==
  rd = "returned" => \A i \in 1..Len(chunks) : chunks[i] # <<>>

\* --------------------------------------------------------------------- C32
\* C32: every envelope written carries a session id in 1000000..9999999,
\* the one of the protocol object; an envelope written to the transport
\* the previous envelope was written to carries the same session id as
\* that one, and the protocol object's session id changes only when a new
\* transport is opened.
C32_OneSessionIdPerConnection ==
  [][/\ sent' # sent
        => /\ sent'.env.session \in 1000000..9999999
           /\ sent'.env.session = protocol'.session_id
           /\ sent # NoSent /\ sent'.client = sent.client
                => sent'.env.session = sent.env.session
     /\ protocol'.session_id # protocol.session_id
        => \E c \in Transports :
             transport[c] = "unopened" /\ transport'[c] = "connected"]_vars

C32_Witness ==
  /\ written = MaxEnvelopes
  /\ sent.client = 2
  /\ HasSession(session)
  /\ session.client = 2
  /\ "dev_id" \in DOMAIN sent.env.meta
  /\ sent.env.session = 9999999

\* --------------------------------------------------------------------- C33
\* The packets ps are laid out for MTU m and message id: a header with at
\* most m - 5 payload bytes, continuations with at most m - 2 payload
\* bytes that begin with the message id and the index 1, 2, 3, ..., and
\* no packet longer than m bytes.
LaidOut(ps, id, m) ==
  /\ Len(ps) >= 1
  /\ Len(ps[1]) >= 5
  /\ Len(ps[1]) - 5 <= m - 5
  /\ \A i \in 2..Len(ps) :
       /\ Len(ps[i]) >= 2
       /\ Len(ps[i]) - 2 <= m - 2
       /\ ps[i][1] = id
       /\ ps[i][2] = i - 1
  /\ \A i \in 1..Len(ps) : Len(ps[i]) <= m

\* C33 (as claimed): whatever the MTU, the packets create_packets emits
\* are laid out for it.
C33_PacketLayout ==
  packets.raised = Ok => LaidOut(packets.packets, msg_id, mtu)

\* C33 (amended): the packets create_packets emits are laid out for the
\* MTU when the MTU is 5 or more.
C33_PacketLayoutFromMtu5 ==
  packets.raised = Ok /\ mtu >= 5 => LaidOut(packets.packets, msg_id, mtu)

C33_Witness ==
  /\ packets.raised = Ok
  /\ mtu = 5
  /\ Len(packets.packets) >= 4
  /\ Len(packets.packets[1]) = 5

\* --------------------------------------------------------------------- C34
\* C34: when a transport disconnects that is not the one of the session
\* handle, and the handle's own transport stays connected, the handle is
\* kept.
C34_ForeignDisconnectKeepsSession ==
  [][\A c \in Transports :
       /\ transport[c] = "connected"
       /\ transport'[c] = "disconnected"
       /\ HasSession(session)
       /\ session.client # c
       /\ transport'[session.client] = "connected"
       => session' = session]_vars

\* --------------------------------------------------------------------- C35
\* C35: whenever the session handle is present its transport is
\* connected.
C35_SessionTransportConnected ==
  HasSession(session) => transport[session.client] = "connected"

\* --------------------------------------------------------------------- C36
\* A connect attempt of some task is using transport c.
Pairing(c) ==
  \E t \in Tasks :
    /\ pc[t] \in {"pair_write", "pair_read", "pair_ready"}
    /\ loc[t].client = c

\* C36: every connected transport belongs to the session handle or to a
\* connect attempt that is still running.
C36_NoOrphanTransport ==
  \A c \in Transports :
    transport[c] = "connected"
      => \/ HasSession(session) /\ session.client = c
         \/ Pairing(c)

\* --------------------------------------------------------------------- C38
\* C38: a setup that fails with device-not-found leaves the entry with a
\* registered retry callback.
C38_WaitingEntryHasLiveCallback ==
  [][\A e \in Entries :
       SetupDeviceNotFound(e) => entry'[e].active >= 1]_vars

\* --------------------------------------------------------------------- C37
\* C37: the PIN of the config entry changes only in a call with
\* update_config whose change request the device answered with type 2.
C37_EntryPinFollowsAck ==
  [][entry'[1].pin # entry[1].pin
       => coord.arg = 1 /\ response.type = ACK_TYPE]_vars

====
